---------------------------- MODULE Spec2Model ----------------------------
(***************************************************************************)
(* Model of mongo_datatables.DataTables (src/mongo_datatables/             *)
(* datatables.py): the request accessors, the search-term parser and the   *)
(* filter builder.                                                         *)
(*                                                                         *)
(* A Python str is a sequence of one-character strings.  The only element  *)
(* that is longer than one character is a placeholder "__QUOTED_TERM_k__", *)
(* which search_terms writes into the string; the request alphabet holds   *)
(* no underscore, so a placeholder never arises from request text.         *)
(***************************************************************************)
EXTENDS Integers, Sequences, FiniteSets, TLC

(***************************************************************************)
(* Python str / re / float / int / datetime primitives used by the code.   *)
(***************************************************************************)

\* str.isspace for the characters of the request alphabet.
IsSpace(c) == c = " "

Digits == <<"0", "1", "2", "3", "4", "5", "6", "7", "8", "9">>

IsDigit(c) == \E i \in 1..10 : Digits[i] = c

DigitVal(c) == (CHOOSE i \in 1..10 : Digits[i] = c) - 1

\* s[i:] for a 1-based i.
Drop(s, i) == SubSeq(s, i, Len(s))

\* str.startswith
StartsWith(s, p) == Len(s) >= Len(p) /\ SubSeq(s, 1, Len(p)) = p

RECURSIVE LStrip(_)
LStrip(s) == IF s # <<>> /\ IsSpace(Head(s)) THEN LStrip(Tail(s)) ELSE s

RECURSIVE RStrip(_)
RStrip(s) ==
    IF s # <<>> /\ IsSpace(s[Len(s)]) THEN RStrip(SubSeq(s, 1, Len(s) - 1)) ELSE s

\* str.strip()
Strip(s) == RStrip(LStrip(s))

\* str.count(c) for a one-character c.
Count(s, c) == Cardinality({i \in 1..Len(s) : s[i] = c})

\* Index of the first occurrence of character c in s, 0 when absent.
IndexOf(s, c) ==
    IF \E i \in 1..Len(s) : s[i] = c
    THEN CHOOSE i \in 1..Len(s) : s[i] = c /\ \A j \in 1..(i - 1) : s[j] # c
    ELSE 0

\* str.split(c): every part between occurrences of c, empty parts kept.
RECURSIVE SplitOn(_, _)
SplitOn(s, c) ==
    LET i == IndexOf(s, c)
    IN  IF i = 0 THEN <<s>>
        ELSE <<SubSeq(s, 1, i - 1)>> \o SplitOn(Drop(s, i + 1), c)

\* str.split(): maximal runs of non-whitespace characters.
RECURSIVE SplitWS(_)
SplitWS(s) ==
    LET t == LStrip(s)
        i == IndexOf(t, " ")
    IN  IF t = <<>> THEN <<>>
        ELSE IF i = 0 THEN <<t>>
        ELSE <<SubSeq(t, 1, i - 1)>> \o SplitWS(Drop(t, i + 1))

\* sep.join(parts)
RECURSIVE Join(_, _)
Join(parts, sep) ==
    IF parts = <<>> THEN <<>>
    ELSE IF Len(parts) = 1 THEN parts[1]
    ELSE parts[1] \o sep \o Join(Tail(parts), sep)

\* str.replace(old, new) for a non-empty old: every non-overlapping
\* occurrence, left to right.
RECURSIVE Replace(_, _, _)
Replace(s, old, new) ==
    IF Len(s) < Len(old) THEN s
    ELSE IF StartsWith(s, old) THEN new \o Replace(Drop(s, Len(old) + 1), old, new)
    ELSE <<Head(s)>> \o Replace(Tail(s), old, new)

\* re.findall(q + "([^" + q + "]*)" + q, s): the contents of the
\* non-overlapping spans delimited by quote character q, left to right.
RECURSIVE FindAllQuoted(_, _)
FindAllQuoted(s, q) ==
    LET i == IndexOf(s, q)
        rest == Drop(s, i + 1)
        j == IndexOf(rest, q)
    IN  IF i = 0 \/ j = 0 THEN <<>>
        ELSE <<SubSeq(rest, 1, j - 1)>> \o FindAllQuoted(Drop(rest, j + 1), q)

\* re.match('^' + q + '.*' + q + '$', s): s starts and ends with q and
\* holds at least two characters (the alphabet has no newline).
MatchesQuoted(s, q) == Len(s) >= 2 /\ s[1] = q /\ s[Len(s)] = q

\* The characters re.escape prefixes with a backslash (Python >= 3.7,
\* setup.py requires >= 3.8), among those of the alphabet.
ReSpecial == {" ", "-", ".", "+", "*", "?", "(", ")", "[", "]", "{", "}",
              "|", "^", "$", "\\", "&", "~", "#"}

RECURSIVE ReEscape(_)
ReEscape(s) ==
    IF s = <<>> THEN <<>>
    ELSE (IF Head(s) \in ReSpecial THEN <<"\\", Head(s)>> ELSE <<Head(s)>>)
         \o ReEscape(Tail(s))

\* Value of a non-empty run of decimal digits.
RECURSIVE DigitsValue(_)
DigitsValue(s) ==
    IF s = <<>> THEN 0
    ELSE 10 * DigitsValue(SubSeq(s, 1, Len(s) - 1)) + DigitVal(s[Len(s)])

AllDigits(s) == s # <<>> /\ \A i \in 1..Len(s) : IsDigit(s[i])

\* int(s) / float(s) on the alphabet: surrounding whitespace is ignored, one
\* leading sign is allowed, the rest must be decimal digits.  ok = FALSE is
\* ValueError.  (The alphabet of values has no decimal point, exponent,
\* underscore, "inf" or "nan", so int and float accept the same strings.)
ParseNumber(s) ==
    LET t == Strip(s)
        signed == t # <<>> /\ Head(t) \in {"-", "+"}
        body == IF signed THEN Tail(t) ELSE t
    IN  IF AllDigits(body)
        THEN [ok |-> TRUE,
              val |-> IF signed /\ Head(t) = "-" THEN 0 - DigitsValue(body)
                      ELSE DigitsValue(body)]
        ELSE [ok |-> FALSE, val |-> 0]

\* A Python float and a Python datetime (at midnight), as BSON values.
Float(n) == [type |-> "float", val |-> n]

IsLeap(y) == (y % 4 = 0 /\ y % 100 # 0) \/ y % 400 = 0

DaysInMonth(y, m) ==
    IF m = 2 THEN (IF IsLeap(y) THEN 29 ELSE 28)
    ELSE IF m \in {4, 6, 9, 11} THEN 30 ELSE 31

\* datetime(y, m, d): ok = FALSE is the ValueError of an out-of-range field.
MakeDatetime(y, m, d) ==
    IF y >= 1 /\ y <= 9999 /\ m >= 1 /\ m <= 12 /\ d >= 1 /\ d <= DaysInMonth(y, m)
    THEN [ok |-> TRUE, dt |-> [type |-> "datetime", year |-> y, month |-> m, day |-> d]]
    ELSE [ok |-> FALSE, dt |-> [type |-> "datetime", year |-> 0, month |-> 0, day |-> 0]]


(***************************************************************************)
(* MongoDB query documents.                                                *)
(***************************************************************************)

\* {} : the empty document, which matches everything.
EmptyDoc == [op |-> "{}"]

\* {field: {"$regex": pattern, "$options": "i"}}
Regex(field, pattern) ==
    [op |-> "$regex", field |-> field, pattern |-> pattern, options |-> "i"]

\* {field: value}
Eq(field, value) == [op |-> "$eq", field |-> field, value |-> value]

\* {field: {cmp: value}} for cmp in $gt, $lt, $gte, $lte
Cmp(field, cmp, value) == [op |-> cmp, field |-> field, value |-> value]

\* {field: {"$gte": lo, "$lt": hi}}
GteLt(field, lo, hi) == [op |-> "$gte,$lt", field |-> field, gte |-> lo, lt |-> hi]

\* {"$and": args}, {"$or": args}, {"$text": {"$search": search}}
And(args) == [op |-> "$and", args |-> args]

Or(args) == [op |-> "$or", args |-> args]

Text(search) == [op |-> "$text", search |-> search]

\* The **custom_filter keyword arguments, as one document.
Kwargs(items) == [op |-> "kwargs", items |-> items]

\* Truth value of a dict: non-empty.
Truthy(doc) == doc # EmptyDoc

(***************************************************************************)
(* State of one DataTables instance.                                       *)
(***************************************************************************)
VARIABLES
    request_args,     \* [search |-> str, columns |-> sequence of columns]
    data_fields,      \* sequence of [name, data_type, alias]
    use_text_index,   \* constructor argument
    has_text_index,   \* self._has_text_index, set by _check_text_index
    debug_mode,       \* constructor argument
    custom_filter,    \* **custom_filter
    query_stats,      \* self._query_stats
    collection,       \* what self.collection.aggregate does when called
    aggregated,       \* the pipelines self.collection.aggregate has received
    results_cache,    \* self._results
    counted,          \* the filters self.collection.count_documents has received
    records_total,    \* self._recordsTotal
    records_filtered, \* self._recordsFiltered
    doc_id,           \* Editor.doc_id
    operations,       \* the write and lookup calls the Editor's collection has received
    existing,          \* the ids of the documents of the Editor's collection
    called,           \* the property evaluated last ("" before the first)
    returned          \* what it returned

vars == <<request_args, data_fields, use_text_index, has_text_index,
          debug_mode, custom_filter, query_stats, collection, aggregated,
          results_cache, counted, records_total, records_filtered, doc_id,
          operations, existing, called, returned>>

inputs == <<request_args, data_fields, use_text_index, has_text_index,
            debug_mode, custom_filter, collection, doc_id>>

\* What only results(), count_total(), count_filtered(), get_rows() and the
\* Editor touch.
counts == <<counted, records_total, records_filtered>>

database == <<operations, existing>>

caches == <<aggregated, results_cache, counts, database>>

\* self.field_types.get(path): the declared type, the last declaration of
\* a path winning, "None" without one.
FieldType(fields, path) ==
    LET hits == {i \in 1..Len(fields) : fields[i].name = path}
    IN  IF hits = {} THEN "None"
        ELSE fields[CHOOSE i \in hits : \A j \in hits : j <= i].data_type

\* self.ui_to_db_field_map.get(field, field)
DbField(fields, field) ==
    LET hits == {i \in 1..Len(fields) : fields[i].alias = field}
    IN  IF hits = {} THEN field
        ELSE fields[CHOOSE i \in hits : \A j \in hits : j <= i].name

\* DataTables.columns
columns == request_args.columns

\* DataTables.searchable_columns
RECURSIVE SearchableOf(_)
SearchableOf(cols) ==
    IF cols = <<>> THEN <<>>
    ELSE (IF Head(cols).searchable THEN <<Head(cols).data>> ELSE <<>>)
         \o SearchableOf(Tail(cols))

searchable_columns == SearchableOf(columns)

InSeq(x, seq) == \E i \in 1..Len(seq) : seq[i] = x

\* DataTables.search_value
search_value == request_args.search

(***************************************************************************)
(* DataTables.search_terms                                                 *)
(***************************************************************************)
Placeholder(k) == "__QUOTED_TERM_" \o ToString(k) \o "__"

\* The inner loop of search_terms over the matches of one quote pattern,
\* the first of them numbered k: every occurrence of the match between
\* DOUBLE quotes (format_str is '"{}"' for both patterns) is replaced.
RECURSIVE ReplaceQuoted(_, _, _)
ReplaceQuoted(modified, matches, k) ==
    IF matches = <<>> THEN modified
    ELSE ReplaceQuoted(
             Replace(modified, <<"\"">> \o Head(matches) \o <<"\"">>, <<Placeholder(k)>>),
             Tail(matches), k + 1)

\* placeholders, as the sequence of stored matches: entry k + 1 is the
\* value of Placeholder(k).
StoredMatches(s) ==
    LET dq == FindAllQuoted(s, "\"")
        afterDq == ReplaceQuoted(s, dq, 0)
    IN  dq \o FindAllQuoted(afterDq, "'")

ModifiedSearch(s) ==
    LET dq == FindAllQuoted(s, "\"")
        afterDq == ReplaceQuoted(s, dq, 0)
    IN  ReplaceQuoted(afterDq, FindAllQuoted(afterDq, "'"), Len(dq))

\* RestoreTerm without the lookup in placeholders.
RestoreTerm_NoLookup(term, stored) == term

\* "if term in placeholders: placeholders[term] else term"
RestoreTerm(term, stored) ==
    IF \E k \in 0..(Len(stored) - 1) : term = <<Placeholder(k)>>
    THEN stored[(CHOOSE k \in 0..(Len(stored) - 1) : term = <<Placeholder(k)>>) + 1]
    ELSE term

SearchTermsOf(s) ==
    IF s = <<>> THEN <<>>
    ELSE LET split_terms == SplitWS(ModifiedSearch(s))
             stored == StoredMatches(s)
         IN  [i \in 1..Len(split_terms) |-> RestoreTerm(split_terms[i], stored)]

search_terms == SearchTermsOf(search_value)

\* DataTables.search_terms_without_a_colon
search_terms_without_a_colon ==
    LET NoColon(t) == Count(t, ":") = 0 IN SelectSeq(search_terms, NoColon)

\* DataTables.search_terms_with_a_colon
search_terms_with_a_colon ==
    LET OneColon(t) == Count(t, ":") = 1 IN SelectSeq(search_terms, OneColon)

(***************************************************************************)
(* DataTables.global_search_condition                                      *)
(***************************************************************************)

\* Flatten a sequence of sequences.
RECURSIVE Concat(_)
Concat(seqs) == IF seqs = <<>> THEN <<>> ELSE Head(seqs) \o Concat(Tail(seqs))

\* "was_quoted": the original search value is surrounded by quotes.
WasQuoted(original_search) ==
    /\ original_search # <<>>
    /\ (MatchesQuoted(original_search, "\"") \/ MatchesQuoted(original_search, "'"))

\* Body of the loop of the exact-phrase branch: the leaves one column adds.
ExactPhraseLeaf(fields, column, clean_term) ==
    IF FieldType(fields, column) \in {"date", "number"} THEN <<>>
    ELSE <<Regex(column, <<"\\", "b">> \o ReEscape(clean_term) \o <<"\\", "b">>)>>

\* RegexOrLeaf without "if field_type == 'date': continue".
RegexOrLeaf_DateNotSkipped(fields, column, term) ==
    IF FieldType(fields, column) = "number"
    THEN (IF ParseNumber(term).ok
          THEN <<Eq(column, Float(ParseNumber(term).val))>> ELSE <<>>)
    ELSE <<Regex(column, term)>>

\* Body of the inner loop of the regex branch: the leaves one (term, column)
\* pair adds.
RegexOrLeaf(fields, column, term) ==
    LET field_type == FieldType(fields, column)
    IN  IF field_type = "date" THEN <<>>
        ELSE IF field_type = "number"
        THEN (IF ParseNumber(term).ok
              THEN <<Eq(column, Float(ParseNumber(term).val))>> ELSE <<>>)
        ELSE <<Regex(column, term)>>

\* RegexOrConditions with or_conditions reset inside the loop over the terms:
\* only the leaves of the last term are left.
RegexOrConditions_LastTermOnly(fields, terms, cols) ==
    Concat([c \in 1..Len(cols) |-> RegexOrLeaf(fields, cols[c], terms[Len(terms)])])

\* "for term in search_terms: for column in searchable_columns: ..."
RegexOrConditions(fields, terms, cols) ==
    Concat([t \in 1..Len(terms) |->
              Concat([c \in 1..Len(cols) |-> RegexOrLeaf(fields, cols[c], terms[t])])])

\* "if or_conditions: return {"$or": or_conditions}; return {}"
OrOrEmpty(or_conditions) ==
    IF or_conditions # <<>> THEN Or(or_conditions) ELSE EmptyDoc

\* "if self.use_text_index and self.has_text_index"
TextIndexUsable == use_text_index /\ has_text_index

\* The value global_search_condition returns.
global_search_condition ==
    LET terms == search_terms_without_a_colon
        cols == searchable_columns
    IN  IF terms = <<>> THEN EmptyDoc
        ELSE IF cols = <<>> THEN EmptyDoc
        ELSE IF WasQuoted(search_value) /\ Len(terms) = 1
        THEN (IF TextIndexUsable THEN Text(search_value)
              ELSE OrOrEmpty(Concat([c \in 1..Len(cols) |->
                                       ExactPhraseLeaf(data_fields, cols[c], terms[1])])))
        ELSE IF TextIndexUsable THEN Text(Join(terms, <<" ">>))
        ELSE OrOrEmpty(RegexOrConditions(data_fields, terms, cols))

\* self._query_stats: a key that is not in the dict is "absent".
NoTerms == [present |-> FALSE, terms |-> <<>>]

StatsAtInit(debug) ==
    IF debug
    THEN [used_text_index |-> "False", used_standard_index |-> "False",
          search_type |-> "none", search_terms |-> NoTerms]
    ELSE [used_text_index |-> "absent", used_standard_index |-> "absent",
          search_type |-> "absent", search_terms |-> NoTerms]

\* self._query_stats after global_search_condition has run from stats.  The
\* text branch of a quoted search writes its two keys without looking at
\* debug_mode; every other write is under "if self.debug_mode".
StatsAfterGlobalSearch(stats) ==
    LET terms == search_terms_without_a_colon
        seen == [present |-> TRUE, terms |-> terms]
    IN  IF terms = <<>> \/ searchable_columns = <<>> THEN stats
        ELSE IF WasQuoted(search_value) /\ Len(terms) = 1
        THEN (IF TextIndexUsable
              THEN [stats EXCEPT !.used_text_index = "True",
                                 !.search_type = "text_exact_phrase",
                                 !.search_terms = IF debug_mode THEN seen ELSE @]
              ELSE IF debug_mode
              THEN [stats EXCEPT !.used_text_index = "False",
                                 !.search_type = "regex_exact_phrase",
                                 !.search_terms = seen]
              ELSE stats)
        ELSE IF ~debug_mode THEN stats
        ELSE IF TextIndexUsable
        THEN [stats EXCEPT !.used_text_index = "True", !.search_type = "text_or",
                           !.search_terms = seen]
        ELSE [stats EXCEPT !.used_text_index = "False", !.search_type = "regex_or",
                           !.search_terms = seen]

(***************************************************************************)
(* DataTables.column_search_conditions                                     *)
(***************************************************************************)

\* Body of the loop: the conditions one column of the request adds.
ColumnSearchLeaf(fields, column) ==
    IF column.search_value # <<>> /\ column.searchable
    THEN LET field_type == FieldType(fields, column.data)
         IN  IF field_type = "number"
             THEN (IF ParseNumber(column.search_value).ok
                   THEN <<Eq(column.data, Float(ParseNumber(column.search_value).val))>>
                   ELSE <<>>)
             ELSE <<Regex(column.data, column.search_value)>>
    ELSE <<>>

\* "if conditions: return {"$and": conditions}; return {}"
AndOrEmpty(conditions) ==
    IF conditions # <<>> THEN And(conditions) ELSE EmptyDoc

column_search_conditions ==
    AndOrEmpty(Concat([c \in 1..Len(columns) |-> ColumnSearchLeaf(data_fields, columns[c])]))

(***************************************************************************)
(* DataTables.column_specific_search_condition                             *)
(***************************************************************************)

\* term.split(":", 1) for a term that holds a colon, both parts stripped.
SplitTerm(term) ==
    LET i == IndexOf(term, ":")
    IN  [field |-> Strip(SubSeq(term, 1, i - 1)), value |-> Strip(Drop(term, i + 1))]

\* StripOperator testing the one-character prefixes first, without the
\* "and not value.startswith('>=')" guards.
StripOperator_ShortestFirst(value) ==
    IF StartsWith(value, <<">">>)
    THEN [operator |-> ">", value |-> Strip(Drop(value, 2))]
    ELSE IF StartsWith(value, <<"<">>)
    THEN [operator |-> "<", value |-> Strip(Drop(value, 2))]
    ELSE IF StartsWith(value, <<"=">>)
    THEN [operator |-> "=", value |-> Strip(Drop(value, 2))]
    ELSE [operator |-> "None", value |-> value]

\* "Check for comparison operators": the operator prefix (or "None") and the
\* value that is left, stripped.
StripOperator(value) ==
    IF StartsWith(value, <<">">>) /\ ~StartsWith(value, <<">", "=">>)
    THEN [operator |-> ">", value |-> Strip(Drop(value, 2))]
    ELSE IF StartsWith(value, <<"<">>) /\ ~StartsWith(value, <<"<", "=">>)
    THEN [operator |-> "<", value |-> Strip(Drop(value, 2))]
    ELSE IF StartsWith(value, <<">", "=">>)
    THEN [operator |-> ">=", value |-> Strip(Drop(value, 3))]
    ELSE IF StartsWith(value, <<"<", "=">>)
    THEN [operator |-> "<=", value |-> Strip(Drop(value, 3))]
    ELSE IF StartsWith(value, <<"=">>)
    THEN [operator |-> "=", value |-> Strip(Drop(value, 2))]
    ELSE [operator |-> "None", value |-> value]

\* The branch "if field_type == 'number'": value is what StripOperator left.
NumberCondition(db_field, operator, value) ==
    LET parsed == ParseNumber(value)
    IN  IF parsed.ok
        THEN (IF operator = ">" THEN Cmp(db_field, "$gt", Float(parsed.val))
              ELSE IF operator = "<" THEN Cmp(db_field, "$lt", Float(parsed.val))
              ELSE IF operator = ">=" THEN Cmp(db_field, "$gte", Float(parsed.val))
              ELSE IF operator = "<=" THEN Cmp(db_field, "$lte", Float(parsed.val))
              ELSE Eq(db_field, Float(parsed.val)))
        ELSE Regex(db_field, value)

\* The branch "elif field_type == 'date'".  Any exception of int() or of
\* datetime() is caught and gives the regex condition.
DateCondition(db_field, operator, value) ==
    LET parts == SplitOn(value, "-")
        fallback == Regex(db_field, value)
    IN  IF Count(value, "-") > 0 /\ Len(parts) = 3
        THEN LET year == ParseNumber(parts[1])
                 month == ParseNumber(parts[2])
                 day == ParseNumber(parts[3])
                 start_date == MakeDatetime(year.val, month.val, day.val)
                 next_day == MakeDatetime(year.val, month.val, day.val + 1)
             IN  IF ~(year.ok /\ month.ok /\ day.ok) \/ ~start_date.ok THEN fallback
                 ELSE IF operator = ">"
                 THEN (IF next_day.ok THEN Cmp(db_field, "$gte", next_day.dt) ELSE fallback)
                 ELSE IF operator = "<" THEN Cmp(db_field, "$lt", start_date.dt)
                 ELSE IF operator = ">=" THEN Cmp(db_field, "$gte", start_date.dt)
                 ELSE IF operator = "<="
                 THEN (IF next_day.ok THEN Cmp(db_field, "$lt", next_day.dt) ELSE fallback)
                 ELSE (IF next_day.ok THEN GteLt(db_field, start_date.dt, next_day.dt)
                       ELSE fallback)
        ELSE fallback

\* The dispatch on field_type, after the operator has been detected.
TypedCondition(field_type, db_field, raw_value) ==
    LET stripped == StripOperator(raw_value)
    IN  IF field_type = "number"
        THEN NumberCondition(db_field, stripped.operator, stripped.value)
        ELSE IF field_type = "date"
        THEN DateCondition(db_field, stripped.operator, stripped.value)
        ELSE Regex(db_field, stripped.value)

\* ColonTermLeaf with the condition keyed by the name the term gives, not
\* by db_field.
ColonTermLeaf_KeyedByAlias(fields, searchable, term) ==
    LET field == SplitTerm(term).field
        value == SplitTerm(term).value
        db_field == DbField(fields, field)
    IN  IF field = <<>> \/ value = <<>> THEN <<>>
        ELSE IF ~InSeq(field, searchable) /\ ~InSeq(db_field, searchable) THEN <<>>
        ELSE <<TypedCondition(FieldType(fields, db_field), field, value)>>

\* Body of the loop over colon_terms: the conditions one term adds.
ColonTermLeaf(fields, searchable, term) ==
    LET field == SplitTerm(term).field
        value == SplitTerm(term).value
        db_field == DbField(fields, field)
    IN  IF field = <<>> \/ value = <<>> THEN <<>>
        ELSE IF ~InSeq(field, searchable) /\ ~InSeq(db_field, searchable) THEN <<>>
        ELSE <<TypedCondition(FieldType(fields, db_field), db_field, value)>>

column_specific_search_condition ==
    LET colon_terms == search_terms_with_a_colon
    IN  AndOrEmpty(Concat([t \in 1..Len(colon_terms) |->
                             ColonTermLeaf(data_fields, searchable_columns, colon_terms[t])]))

(***************************************************************************)
(* DataTables.filter                                                       *)
(***************************************************************************)

\* Combine without the branch for a single condition.
Combine_AlwaysAnd(conditions) ==
    IF Len(conditions) >= 1 THEN And(conditions) ELSE EmptyDoc

\* "Combine all conditions with $and"
Combine(conditions) ==
    IF Len(conditions) > 1 THEN And(conditions)
    ELSE IF Len(conditions) = 1 THEN conditions[1]
    ELSE EmptyDoc

\* "if x: conditions.append(x)" for the four sources, in the code's order.
FilterSources(custom, global_search, column_search, column_specific) ==
    (IF Truthy(custom) THEN <<custom>> ELSE <<>>)
    \o (IF Truthy(global_search) THEN <<global_search>> ELSE <<>>)
    \o (IF Truthy(column_search) THEN <<column_search>> ELSE <<>>)
    \o (IF Truthy(column_specific) THEN <<column_specific>> ELSE <<>>)

filter ==
    Combine(FilterSources(custom_filter, global_search_condition,
                          column_search_conditions, column_specific_search_condition))

(***************************************************************************)
(* Values of the request and of the documents, and Python's dict.          *)
(***************************************************************************)
None == [type |-> "NoneType"]

PyInt(n) == [type |-> "int", val |-> n]

PyStr(s) == [type |-> "str", val |-> s]

ObjectId(hex) == [type |-> "ObjectId", hex |-> hex]

Datetime(y, m, d, hh, mi, ss) ==
    [type |-> "datetime", year |-> y, month |-> m, day |-> d,
     hour |-> hh, minute |-> mi, second |-> ss]

PyDict(items) == [type |-> "dict", items |-> items]

PyList(items) == [type |-> "list", items |-> items]

\* An exception raised instead of a value returned.
Raised(exc) == [op |-> "raise", exc |-> exc]

\* request_args.get(key)
Get(args, key) == IF key \in DOMAIN args THEN args[key] ELSE None

\* request_args.get(key, default)
GetOr(args, key, default) == IF key \in DOMAIN args THEN args[key] ELSE default

\* int(v): an int as it is, a string of an integer literal parsed, anything
\* else an exception.
IntOf(v) ==
    IF v.type = "int" THEN [ok |-> TRUE, val |-> v.val]
    ELSE IF v.type = "str" THEN ParseNumber(v.val)
    ELSE [ok |-> FALSE, val |-> 0]

\* A dict as the sequence of its [key, val] entries in insertion order.
DictHas(d, key) == \E i \in 1..Len(d) : d[i].key = key

\* d[key] = val
DictSet(d, key, val) ==
    IF DictHas(d, key)
    THEN [i \in 1..Len(d) |-> IF d[i].key = key THEN [key |-> key, val |-> val] ELSE d[i]]
    ELSE Append(d, [key |-> key, val |-> val])

\* del d[key]
DictDel(d, key) == LET Other(e) == e.key # key IN SelectSeq(d, Other)

DictGet(d, key) == d[CHOOSE i \in 1..Len(d) : d[i].key = key].val

\* list(d.keys())
DictKeys(d) == [i \in 1..Len(d) |-> d[i].key]

\* stats.update(writes): the keys of writes set in the record stats.
StatsUpdate(stats, writes) == writes @@ stats

(***************************************************************************)
(* DataTables.get_sort_specification                                       *)
(***************************************************************************)
default_sort_field == <<"T", "i", "t", "l", "e">>

default_sort_dir == 1

s__id == <<"_", "i", "d">>

\* WithTiebreaker without the test for _id.
WithTiebreaker_Always(sort_spec) == Append(sort_spec, [key |-> s__id, val |-> 1])

\* "Always add _id as a secondary sort for stability"
WithTiebreaker(sort_spec) ==
    IF DictHas(sort_spec, s__id) THEN sort_spec ELSE DictSet(sort_spec, s__id, 1)

\* The outcome of get_sort_specification: the exception raised ("None" for
\* none), the specification returned and the keys it writes to
\* self._query_stats in debug mode.  Only the first entry of the order list
\* is read.
SortOutcome ==
    LET order == GetOr(request_args, "order", <<>>)
        Done(spec, writes) ==
            LET sort_spec == WithTiebreaker(spec)
            IN  [raised |-> "None", sort_spec |-> sort_spec,
                 writes |-> [sorted_fields |-> DictKeys(sort_spec),
                             sort_spec |-> sort_spec] @@ writes]
        Default(error) ==
            Done(<<[key |-> default_sort_field, val |-> default_sort_dir]>>,
                 error @@ [sort_column_ui |-> default_sort_field,
                           sort_column_db |-> default_sort_field])
        Failed(exc) == [raised |-> exc, sort_spec |-> <<>>, writes |-> <<>>]
    IN  IF order = <<>> THEN Default(<<>>)
        ELSE LET order_info == order[1]
             IN  IF "column" \notin DOMAIN order_info THEN Failed("KeyError")
                 ELSE IF ~IntOf(order_info.column).ok THEN Failed("ValueError")
                 ELSE IF "dir" \notin DOMAIN order_info THEN Failed("KeyError")
                 ELSE LET col_idx == IntOf(order_info.column).val
                          dir_value == IF order_info.dir = "asc" THEN 1 ELSE -1
                      IN  IF 0 <= col_idx /\ col_idx < Len(columns)
                          THEN LET ui_field_name == columns[col_idx + 1].data
                                   db_field_name == DbField(data_fields, ui_field_name)
                               IN  IF ui_field_name # <<>>
                                   THEN Done(<<[key |-> db_field_name, val |-> dir_value]>>,
                                             [sort_column_ui |-> ui_field_name,
                                              sort_column_db |-> db_field_name])
                                   ELSE Default([sort_error |->
                                                    [col_idx |-> col_idx,
                                                     no_data_field |-> TRUE]])
                          ELSE Default([sort_error |->
                                           [col_idx |-> col_idx,
                                            no_data_field |-> FALSE]])

\* What a caller of get_sort_specification gets.
get_sort_specification ==
    IF SortOutcome.raised = "None" THEN PyDict(SortOutcome.sort_spec)
    ELSE Raised(SortOutcome.raised)

\* self._query_stats after get_sort_specification has run from stats.
StatsAfterSort(stats) ==
    IF debug_mode /\ SortOutcome.raised = "None"
    THEN StatsUpdate(stats, SortOutcome.writes)
    ELSE stats

(***************************************************************************)
(* DataTables.start, DataTables.limit, DataTables.projection               *)
(***************************************************************************)
start == IntOf(GetOr(request_args, "start", PyInt(0)))

limit == IntOf(GetOr(request_args, "length", PyInt(10)))

RECURSIVE ProjectionOf(_, _)
ProjectionOf(cols, projection) ==
    IF cols = <<>> THEN projection
    ELSE ProjectionOf(Tail(cols),
                      IF Head(cols).data # <<>>
                      THEN DictSet(projection, Head(cols).data, 1)
                      ELSE projection)

projection == PyDict(ProjectionOf(columns, <<[key |-> s__id, val |-> 1]>>))

(***************************************************************************)
(* The requests the instance is constructed with.                          *)
(***************************************************************************)

\* Bounds of the request: the number of columns it lists and the number of
\* whitespace-separated pieces of the global search string.
MaxCols == 3

MaxTerms == 2

s_name == <<"n", "a", "m", "e">>
s_age == <<"a", "g", "e">>
s_joined == <<"j", "o", "i", "n", "e", "d">>
s_info_joined == <<"i", "n", "f", "o", ".">> \o s_joined
s_stats_age == <<"s", "t", "a", "t", "s", ".">> \o s_age
s_email == <<"e", "m", "a", "i", "l">>
s_status == <<"s", "t", "a", "t", "u", "s">>
s_zip == <<"z", "i", "p">>
s_John == <<"J", "o", "h", "n">>
s_Doe == <<"D", "o", "e">>
s_42 == <<"4", "2">>
s_abc == <<"a", "b", "c">>

DataField(name, data_type, alias) ==
    [name |-> name, data_type |-> data_type, alias |-> alias]

\* data_fields: none; every column declared under its own name; the number
\* and the date field nested, with the column name as their alias.
NoFields == <<>>

FlatFields ==
    <<DataField(s_name, "string", s_name), DataField(s_age, "number", s_age),
      DataField(s_joined, "date", s_joined)>>

NestedFields ==
    <<DataField(s_name, "string", s_name), DataField(s_stats_age, "number", s_age),
      DataField(s_info_joined, "date", s_joined)>>

\* The "data" of the columns: by alias, or with the date column by path.
ColumnDataByAlias == <<s_name, s_age, s_joined, s_email, s_status, s_zip>>

ColumnDataByPath == <<s_name, s_age, s_info_joined, s_email, s_status, s_zip>>

ColumnDatas == {ColumnDataByAlias, ColumnDataByPath}

Column(data, searchable, value, regex) ==
    [data |-> data, searchable |-> searchable, search_value |-> value,
     search_regex |-> regex]

\* The searchable flags of the columns: all searchable, all but one, none.
Masks ==
    {[c \in 1..MaxCols |-> c # off] : off \in 0..MaxCols}
    \cup {[c \in 1..MaxCols |-> FALSE]}

\* The MaxCols-column lists over datas whose search boxes are all empty.
PlainColumns(datas) ==
    {[c \in 1..MaxCols |-> Column(d[c], mask[c], <<>>, FALSE)] :
        d \in datas, mask \in Masks}

\* Column lists with search boxes drawn from BoxValues.
BoxValues == {<<>>, s_John, s_42}

\* Column lists with every choice of search boxes; the boxes ask for regex
\* semantics or not.
BoxedColumns ==
    {[c \in 1..MaxCols |-> Column(ColumnDataByAlias[c], mask[c], box[c], regex)] :
        mask \in Masks, box \in [1..MaxCols -> BoxValues], regex \in BOOLEAN}

\* Global search strings: 1..MaxTerms pieces joined by single spaces.  The
\* pieces are a word, a number, a double-quoted phrase, a single-quoted
\* word and a double-quoted field-qualified term.
Pieces ==
    {s_John, s_42,
     <<"\"">> \o s_John \o <<" ">> \o s_Doe \o <<"\"">>,
     <<"'">> \o s_John \o <<"'">>,
     <<"\"">> \o s_name \o <<":">> \o s_Doe \o <<"\"">>}

RECURSIVE PieceSeqs(_)
PieceSeqs(n) ==
    IF n = 0 THEN {<<>>}
    ELSE {<<p>> \o rest : p \in Pieces, rest \in PieceSeqs(n - 1)}

FreeSearches ==
    {Join(ps, <<" ">>) : ps \in UNION {PieceSeqs(n) : n \in 1..MaxTerms}}

\* Field-qualified terms alias:<operator><body>.
Operators == {<<>>, <<">">>, <<"<">>, <<">", "=">>, <<"<", "=">>, <<"=">>}

Pad2(n) == <<Digits[(n \div 10) + 1], Digits[(n % 10) + 1]>>

Pad4(n) == Pad2(n \div 100) \o Pad2(n % 100)

IsoDate(y, m, d) == Pad4(y) \o <<"-">> \o Pad2(m) \o <<"-">> \o Pad2(d)

\* Days inside a month, last days of a month and of a year, 29 February of
\* a leap and of a common year, and 31 April.
DatePoints ==
    {<<2023, 1, 1>>, <<2023, 1, 31>>, <<2023, 2, 28>>, <<2023, 2, 29>>,
     <<2024, 2, 29>>, <<2023, 4, 30>>, <<2023, 4, 31>>, <<2023, 12, 31>>}

DateBodies == {IsoDate(p[1], p[2], p[3]) : p \in DatePoints}

NumberBodies ==
    {<<"2", "1">>, <<"-", "1", "0">>, <<"1", "0", "-", "2", "0">>, s_abc, <<>>}

OtherBodies == {<<"2", "0", "2", "3", "-", "0", "1">>}

Aliases == {s_name, s_age, s_joined}

\* Terms with an unknown alias, with no alias and with no value.
DroppedTerms ==
    {s_zip \o <<":", "2", "1">>, <<":", "2", "1">>, s_age \o <<":">>,
     s_zip \o <<":">> \o IsoDate(2023, 1, 1)}

ColonSearches ==
    {a \o <<":">> \o o \o b :
        a \in Aliases, o \in Operators, b \in DateBodies \cup NumberBodies \cup OtherBodies}
    \cup DroppedTerms

ComposeSearches ==
    {<<>>, s_John, s_age \o <<":", ">", "=", "2", "1">>,
     s_John \o <<" ">> \o s_age \o <<":", ">", "=", "2", "1">>}

Department == Kwargs(<<[key |-> "department", value |-> "IT"]>>)

(***************************************************************************)
(* DataTables.results and DataTables._format_result_values                 *)
(***************************************************************************)
s_DT_RowId == <<"D", "T", "_", "R", "o", "w", "I", "d">>

\* val.isoformat() of a datetime without microseconds and without tzinfo
IsoFormat(dt) ==
    IsoDate(dt.year, dt.month, dt.day) \o <<"T">> \o Pad2(dt.hour) \o <<":">>
    \o Pad2(dt.minute) \o <<":">> \o Pad2(dt.second)

\* hasattr(val, 'isoformat')
HasIsoformat(val) == val.type = "datetime"

\* str(val) of an identifier
StrOf(val) ==
    IF val.type = "ObjectId" THEN PyStr(val.hex)
    ELSE IF val.type = "str" THEN val
    ELSE IF val.type = "datetime"
    THEN PyStr(IsoDate(val.year, val.month, val.day) \o <<" ">> \o Pad2(val.hour)
               \o <<":">> \o Pad2(val.minute) \o <<":">> \o Pad2(val.second))
    ELSE [type |-> "str", of |-> val]

\* _format_result_values on the entries of a dict: a nested dict is
\* formatted recursively; the dicts of a list are formatted and its
\* identifiers and dates converted, every other item (a list too) is left
\* as it is; identifiers and dates become strings.
RECURSIVE FormatResultValues(_)

\* "for i, item in enumerate(val)": what val[i] is afterwards.
FormatItem(item) ==
    IF item.type = "dict" THEN PyDict(FormatResultValues(item.items))
    ELSE IF item.type = "ObjectId" THEN StrOf(item)
    ELSE IF HasIsoformat(item) THEN PyStr(IsoFormat(item))
    ELSE item

\* "for key, val in items": what result_dict[key] is afterwards.
FormatVal(val) ==
    IF val.type = "dict" THEN PyDict(FormatResultValues(val.items))
    ELSE IF val.type = "list"
    THEN PyList([i \in 1..Len(val.items) |-> FormatItem(val.items[i])])
    ELSE IF val.type = "ObjectId" THEN StrOf(val)
    ELSE IF HasIsoformat(val) THEN PyStr(IsoFormat(val))
    ELSE val

FormatResultValues(result_dict) ==
    [i \in 1..Len(result_dict) |->
        [key |-> result_dict[i].key, val |-> FormatVal(result_dict[i].val)]]

\* Body of the loop of results() over the documents of the cursor.
ProcessResult(result) ==
    LET result_dict ==
            IF DictHas(result, s__id)
            THEN DictDel(DictSet(result, s_DT_RowId, StrOf(DictGet(result, s__id))),
                         s__id)
            ELSE result
    IN  FormatResultValues(result_dict)

Stage(name, arg) == [stage |-> name, arg |-> arg]

\* Pipeline with the limit stage added before the skip stage.
Pipeline_LimitBeforeSkip ==
    (IF Truthy(filter) THEN <<Stage("$match", filter)>> ELSE <<>>)
    \o (IF SortOutcome.sort_spec # <<>>
        THEN <<Stage("$sort", SortOutcome.sort_spec)>> ELSE <<>>)
    \o (IF limit.val # 0 THEN <<Stage("$limit", limit.val)>> ELSE <<>>)
    \o (IF start.val > 0 THEN <<Stage("$skip", start.val)>> ELSE <<>>)
    \o <<Stage("$project", projection.items)>>

\* The pipeline results() builds from the filter, the sort specification
\* and the paging parameters.
Pipeline ==
    (IF Truthy(filter) THEN <<Stage("$match", filter)>> ELSE <<>>)
    \o (IF SortOutcome.sort_spec # <<>>
        THEN <<Stage("$sort", SortOutcome.sort_spec)>> ELSE <<>>)
    \o (IF start.val > 0 THEN <<Stage("$skip", start.val)>> ELSE <<>>)
    \o (IF limit.val # 0 THEN <<Stage("$limit", limit.val)>> ELSE <<>>)
    \o <<Stage("$project", projection.items)>>

\* results() gets as far as self.collection.aggregate(pipeline): nothing is
\* cached and building the pipeline raises nothing.
ResultsAggregates ==
    /\ results_cache = None
    /\ SortOutcome.raised = "None"
    /\ start.ok
    /\ limit.ok

\* The processed documents of the cursor.
ProcessedResults ==
    PyList([i \in 1..Len(collection.docs) |-> ProcessResult(collection.docs[i])])

\* What results() returns: the cached list, the processed documents, or []
\* after an exception anywhere in the try block.
ResultsReturned ==
    IF results_cache # None THEN results_cache
    ELSE IF ResultsAggregates /\ ~collection.raises THEN ProcessedResults
    ELSE PyList(<<>>)

\* self._query_stats after results(): the filter is evaluated, then the
\* sort specification.
StatsAfterResults ==
    IF results_cache # None THEN query_stats
    ELSE StatsAfterSort(StatsAfterGlobalSearch(query_stats))

\* ---- count_total, count_filtered, get_rows ----

\* self.collection.count_documents(query) on a collection that holds
\* collection.total documents, collection.docs of them matching the filter
\* of the request, and whose count raises when collection.count_raises.
CountDocuments(query) ==
    IF query = EmptyDoc THEN collection.total ELSE Len(collection.docs)

\* count_total() asks the collection: nothing is cached yet.
TotalCounts == records_total = None

\* count_total without its except clause: the exception of the count
\* reaches the caller.
count_total_Propagates ==
    IF records_total # None THEN records_total
    ELSE IF collection.count_raises THEN Raised("Exception")
    ELSE PyInt(CountDocuments(EmptyDoc))

\* What count_total() returns, and self._recordsTotal afterwards: the cached
\* value, the count, or 0 when the count raises.
count_total ==
    IF records_total # None THEN records_total
    ELSE IF collection.count_raises THEN PyInt(0)
    ELSE PyInt(CountDocuments(EmptyDoc))

\* count_filtered() asks the collection for the filtered count: nothing is
\* cached yet and the filter is not empty.
FilteredCounts == records_filtered = None /\ Truthy(filter)

\* What count_filtered() returns, and self._recordsFiltered afterwards: the
\* cached value, the count under the filter (0 when it raises), or
\* count_total() when the filter is empty.
count_filtered ==
    IF records_filtered # None THEN records_filtered
    ELSE IF ~Truthy(filter) THEN count_total
    ELSE IF collection.count_raises THEN PyInt(0)
    ELSE PyInt(CountDocuments(filter))

\* self._recordsTotal after count_filtered(): set by the inner count_total()
\* when the filter is empty.
TotalAfterCountFiltered ==
    IF records_filtered = None /\ ~Truthy(filter) THEN count_total
    ELSE records_total

\* The count_documents calls count_filtered() makes.
CountedByCountFiltered ==
    IF records_filtered # None THEN <<>>
    ELSE IF Truthy(filter) THEN <<filter>>
    ELSE IF TotalCounts THEN <<EmptyDoc>>
    ELSE <<>>

\* self._query_stats after count_filtered(): the filter is evaluated when
\* nothing is cached.
StatsAfterCountFiltered ==
    IF records_filtered = None THEN StatsAfterGlobalSearch(query_stats)
    ELSE query_stats

\* int(self.request_args.get("draw", 1)) in get_rows.
draw == IntOf(GetOr(request_args, "draw", PyInt(1)))

\* The count_documents calls get_rows() makes: count_total() first, then
\* count_filtered(), whose inner count_total() finds the total cached.
CountedByGetRows ==
    (IF TotalCounts THEN <<EmptyDoc>> ELSE <<>>)
    \o (IF FilteredCounts THEN <<filter>> ELSE <<>>)

\* self._query_stats after get_rows(): count_filtered() evaluates the
\* filter, results() the filter and the sort specification.
StatsAfterGetRows ==
    IF results_cache = None THEN StatsAfterResults
    ELSE StatsAfterCountFiltered

\* The response of get_rows(), or the exception of int() on the draw.
get_rows ==
    IF ~draw.ok THEN Raised("ValueError")
    ELSE [draw |-> PyInt(draw.val),
          recordsTotal |-> count_total,
          recordsFiltered |-> count_filtered,
          data |-> ResultsReturned]
         @@ (IF debug_mode THEN [query_stats |-> StatsAfterGetRows] ELSE <<>>)

\* _check_text_index: whether list_indexes() reports a text index.
CheckTextIndex(collection_has_text_index) == collection_has_text_index

\* The instance constructed over a collection whose aggregate call raises or
\* yields docs.
ConstructOn(backend, args, fields, use_index, collection_has_text_index, debug, custom) ==
    /\ request_args = args
    /\ data_fields = fields
    /\ use_text_index = use_index
    /\ has_text_index = CheckTextIndex(collection_has_text_index)
    /\ debug_mode = debug
    /\ custom_filter = custom
    /\ query_stats = StatsAtInit(debug)
    /\ collection = backend
    /\ aggregated = <<>>
    /\ results_cache = None
    /\ counted = <<>>
    /\ records_total = None
    /\ records_filtered = None
    /\ doc_id = <<>>
    /\ operations = <<>>
    /\ existing = {}
    /\ called = ""
    /\ returned = EmptyDoc

EmptyCollection == [raises |-> FALSE, docs |-> <<>>]

Construct(args, fields, use_index, collection_has_text_index, debug, custom) ==
    ConstructOn(EmptyCollection, args, fields, use_index,
                collection_has_text_index, debug, custom)

\* Free-text searches over every column mask, text index on and off.
InitGlobal ==
    \E search \in FreeSearches, cols \in PlainColumns({ColumnDataByAlias}),
       fields \in {NoFields, FlatFields}, use_index \in BOOLEAN, has_index \in BOOLEAN :
        Construct([search |-> search, columns |-> cols], fields, use_index,
                  has_index, FALSE, EmptyDoc)

\* One field-qualified term against declared fields.
InitColon ==
    \E search \in ColonSearches, cols \in PlainColumns(ColumnDatas),
       fields \in {FlatFields, NestedFields} :
        Construct([search |-> search, columns |-> cols], fields, FALSE, FALSE,
                  FALSE, EmptyDoc)

\* Every combination of the four clause sources.
InitCompose ==
    \E search \in ComposeSearches, cols \in BoxedColumns,
       fields \in {NoFields, FlatFields}, custom \in {EmptyDoc, Department} :
        Construct([search |-> search, columns |-> cols], fields, TRUE, FALSE,
                  TRUE, custom)

Init == InitGlobal \/ InitColon \/ InitCompose

(***************************************************************************)
(* The operations: each evaluates one property of the instance.            *)
(***************************************************************************)
EvalGlobalSearchCondition ==
    /\ called' = "global_search_condition"
    /\ returned' = global_search_condition
    /\ query_stats' = StatsAfterGlobalSearch(query_stats)
    /\ UNCHANGED <<inputs, caches>>

EvalColumnSearchConditions ==
    /\ called' = "column_search_conditions"
    /\ returned' = column_search_conditions
    /\ UNCHANGED <<inputs, query_stats, caches>>

EvalColumnSpecificSearchCondition ==
    /\ called' = "column_specific_search_condition"
    /\ returned' = column_specific_search_condition
    /\ UNCHANGED <<inputs, query_stats, caches>>

\* filter evaluates the other three properties, global_search_condition
\* with its writes to _query_stats.
EvalFilter ==
    /\ called' = "filter"
    /\ returned' = filter
    /\ query_stats' = StatsAfterGlobalSearch(query_stats)
    /\ UNCHANGED <<inputs, caches>>

Next ==
    \/ EvalGlobalSearchCondition
    \/ EvalColumnSearchConditions
    \/ EvalColumnSpecificSearchCondition
    \/ EvalFilter

Spec == Init /\ [][Next]_vars

(***************************************************************************)
(* The parser of the global search string on its own: search_terms and the *)
(* two classifications of its terms, over strings with quoted phrases and  *)
(* terms with one or two colons.                                           *)
(***************************************************************************)
DQPhrase == <<"\"">> \o s_John \o <<" ">> \o s_Doe \o <<"\"">>

SQPhrase == <<"'">> \o s_John \o <<" ">> \o s_Doe \o <<"'">>

\* alias:"two words"
QualifiedPhrase == s_name \o <<":">> \o DQPhrase

\* A term with two colons.
TwoColons == s_name \o <<":">> \o s_Doe \o <<":">> \o s_42

TermPieces ==
    {s_John, DQPhrase, SQPhrase, s_name \o <<":">> \o s_Doe, QualifiedPhrase,
     TwoColons}

RECURSIVE TermPieceSeqs(_)
TermPieceSeqs(n) ==
    IF n = 0 THEN {<<>>}
    ELSE {<<p>> \o rest : p \in TermPieces, rest \in TermPieceSeqs(n - 1)}

TermSearches ==
    {Join(ps, <<" ">>) : ps \in UNION {TermPieceSeqs(n) : n \in 1..MaxTerms}}

InitTerms ==
    \E search \in TermSearches, cols \in PlainColumns({ColumnDataByAlias}),
       fields \in {NoFields, FlatFields} :
        Construct([search |-> search, columns |-> cols], fields, FALSE, FALSE,
                  FALSE, EmptyDoc)

EvalSearchTerms ==
    /\ called' = "search_terms"
    /\ returned' = search_terms
    /\ UNCHANGED <<inputs, query_stats, caches>>

EvalSearchTermsWithoutAColon ==
    /\ called' = "search_terms_without_a_colon"
    /\ returned' = search_terms_without_a_colon
    /\ UNCHANGED <<inputs, query_stats, caches>>

EvalSearchTermsWithAColon ==
    /\ called' = "search_terms_with_a_colon"
    /\ returned' = search_terms_with_a_colon
    /\ UNCHANGED <<inputs, query_stats, caches>>

NextTerms ==
    \/ EvalSearchTerms
    \/ EvalSearchTermsWithoutAColon
    \/ EvalSearchTermsWithAColon
    \/ EvalGlobalSearchCondition
    \/ EvalColumnSpecificSearchCondition

SpecTerms == InitTerms /\ [][NextTerms]_vars

(***************************************************************************)
(* The query plan: sort specification, projection and results() over       *)
(* requests with an order list and paging parameters.                      *)
(***************************************************************************)

\* Bound of the request: the number of entries of its order list.
MaxOrder == 2

s_address_city == <<"a", "d", "d", "r", "e", "s", "s", ".", "c", "i", "t", "y">>

s_address == <<"a", "d", "d", "r", "e", "s", "s">>

\* The "data" of the columns of the plan requests: three plain columns with
\* a nested one, or the identifier, a column without data and a column
\* whose alias maps to a nested path.
PlanDataNested == <<s_name, s_email, s_address_city, s_status, s_zip>>

PlanDataId == <<s__id, <<>>, s_age, s_name, s_email>>

PlanColumns ==
    {[c \in 1..MaxCols |-> Column(d[c], TRUE, <<>>, FALSE)] :
        d \in {PlanDataNested, PlanDataId}}

\* Entries of the order list: every column index up to the first invalid
\* one, ascending and descending, an entry with an unknown direction and an
\* entry without direction.
OrderEntries ==
    {[column |-> PyInt(c), dir |-> d] : c \in 0..MaxCols, d \in {"asc", "desc"}}
    \cup {[column |-> PyInt(0), dir |-> "invalid"], [column |-> PyInt(1)]}

RECURSIVE OrderLists(_)
OrderLists(n) ==
    IF n = 0 THEN {<<>>}
    ELSE {<<e>> \o rest : e \in OrderEntries, rest \in OrderLists(n - 1)}

\* The documents of the collection.
Oid1 == ObjectId(<<"5", "f", "5", "0">>)

Oid2 == ObjectId(<<"5", "f", "5", "1">>)

Doc(entries) == [i \in 1..Len(entries) |-> [key |-> entries[i][1], val |-> entries[i][2]]]

FlatDoc ==
    Doc(<<<<s__id, Oid1>>, <<s_name, PyStr(s_John)>>, <<s_age, PyInt(42)>>,
          <<s_joined, Datetime(2020, 1, 1, 0, 0, 0)>>>>)

NestedDoc ==
    Doc(<<<<s__id, Oid2>>,
          <<s_address, PyDict(Doc(<<<<s_zip, Oid1>>,
                                    <<s_joined, Datetime(2023, 12, 31, 23, 59, 59)>>>>))>>,
          <<s_status, PyList(<<Oid1, Datetime(2020, 2, 2, 0, 0, 0), PyStr(s_Doe),
                               PyDict(Doc(<<<<s_zip, Oid2>>>>))>>)>>>>)

\* A list directly inside a list.
ListInListDoc ==
    Doc(<<<<s__id, Oid1>>, <<s_status, PyList(<<PyList(<<Oid2>>)>>)>>>>)

NoIdDoc == Doc(<<<<s_name, PyStr(s_Doe)>>, <<s_age, Float(42)>>>>)

Collections ==
    {[raises |-> FALSE, docs |-> docs] :
        docs \in {<<>>, <<FlatDoc>>, <<FlatDoc, NestedDoc>>, <<ListInListDoc>>,
                  <<NoIdDoc>>}}
    \cup {[raises |-> TRUE, docs |-> <<>>]}

Optional(key, values) == {<<>>} \cup {[k \in {key} |-> v] : v \in values}

\* Requests with an order list of up to MaxOrder entries.
InitSort ==
    \E order \in UNION {OrderLists(n) : n \in 0..MaxOrder}, cols \in PlanColumns,
       fields \in {NoFields, NestedFields}, debug \in BOOLEAN :
        ConstructOn(EmptyCollection,
                    [search |-> <<>>, columns |-> cols, order |-> order],
                    fields, FALSE, FALSE, debug, EmptyDoc)

\* Requests with start and length, over the collections.
InitPage ==
    \E backend \in Collections, cols \in PlanColumns, search \in {<<>>, s_John},
       st \in Optional("start", {PyInt(0), PyInt(2)}),
       len \in Optional("length", {PyInt(0), PyInt(-1), PyInt(10)}),
       debug \in BOOLEAN :
        ConstructOn(backend,
                    st @@ len @@ [search |-> search, columns |-> cols],
                    NoFields, FALSE, FALSE, debug, EmptyDoc)

InitPlan == InitSort \/ InitPage

EvalGetSortSpecification ==
    /\ called' = "get_sort_specification"
    /\ returned' = get_sort_specification
    /\ query_stats' = StatsAfterSort(query_stats)
    /\ UNCHANGED <<inputs, caches>>

EvalProjection ==
    /\ called' = "projection"
    /\ returned' = projection
    /\ UNCHANGED <<inputs, query_stats, caches>>

\* Bound of the behaviours: the number of pipelines sent to the collection
\* (a failed aggregate call is not cached, so every further call of
\* results() sends another one).
MaxCalls == 2

EvalResults ==
    /\ Len(aggregated) < MaxCalls
    /\ called' = "results"
    /\ returned' = ResultsReturned
    /\ aggregated' = IF ResultsAggregates THEN Append(aggregated, Pipeline)
                     ELSE aggregated
    /\ results_cache' = IF ResultsAggregates /\ ~collection.raises
                        THEN ProcessedResults ELSE results_cache
    /\ query_stats' = StatsAfterResults
    /\ UNCHANGED <<inputs, counts, database>>

NextPlan ==
    \/ EvalGetSortSpecification
    \/ EvalProjection
    \/ EvalResults

SpecPlan == InitPlan /\ [][NextPlan]_vars

(***************************************************************************)
(* The read path: results(), count_total(), count_filtered() and           *)
(* get_rows() of one instance, called in any order, over collections whose *)
(* aggregate and count_documents calls succeed or raise.                   *)
(***************************************************************************)
RowsCollections ==
    {[raises |-> r, count_raises |-> c, docs |-> <<FlatDoc>>,
      total |-> Len(<<FlatDoc, NestedDoc>>)] :
        r \in BOOLEAN, c \in BOOLEAN}

\* Order lists of a request: a valid entry, a column index past the last
\* column and a column index that is no number.
RowsOrders ==
    <<<<>>,
      [order |-> <<[column |-> PyInt(0), dir |-> "desc"]>>],
      [order |-> <<[column |-> PyInt(MaxCols), dir |-> "asc"]>>],
      [order |-> <<[column |-> PyStr(s_abc), dir |-> "asc"]>>]>>

\* The draw of a request: none, a number, a string of a number, a string of
\* no number.
RowsDraws ==
    <<<<>>, [draw |-> PyInt(3)], [draw |-> PyStr(s_42)], [draw |-> PyStr(s_abc)]>>

\* Requests with and without draw, start, length and order, each of them
\* well-formed or not.
InitRows ==
    \E backend \in RowsCollections, search \in {<<>>, s_John},
       dr \in DOMAIN RowsDraws,
       page \in Optional("start", {PyStr(s_abc)})
                 \cup Optional("length", {PyStr(s_abc)}),
       order \in DOMAIN RowsOrders,
       debug \in BOOLEAN :
        ConstructOn(backend,
                    RowsDraws[dr] @@ page @@ RowsOrders[order]
                       @@ [search |-> search,
                           columns |-> [c \in 1..MaxCols |->
                                           Column(PlanDataNested[c], TRUE, <<>>, FALSE)]],
                    NoFields, FALSE, FALSE, debug, EmptyDoc)

EvalCountTotal ==
    /\ called' = "count_total"
    /\ returned' = count_total
    /\ records_total' = count_total
    /\ counted' = IF TotalCounts THEN Append(counted, EmptyDoc) ELSE counted
    /\ UNCHANGED <<inputs, query_stats, aggregated, results_cache,
                   records_filtered, database>>

EvalCountFiltered ==
    /\ called' = "count_filtered"
    /\ returned' = count_filtered
    /\ records_filtered' = count_filtered
    /\ records_total' = TotalAfterCountFiltered
    /\ counted' = counted \o CountedByCountFiltered
    /\ query_stats' = StatsAfterCountFiltered
    /\ UNCHANGED <<inputs, aggregated, results_cache, database>>

\* get_rows(): the draw, then count_total(), count_filtered() and results();
\* an exception of the draw leaves the instance as it is.
EvalGetRows ==
    /\ Len(aggregated) < MaxCalls
    /\ called' = "get_rows"
    /\ returned' = get_rows
    /\ IF draw.ok
       THEN /\ records_total' = count_total
            /\ records_filtered' = count_filtered
            /\ counted' = counted \o CountedByGetRows
            /\ aggregated' = IF ResultsAggregates THEN Append(aggregated, Pipeline)
                             ELSE aggregated
            /\ results_cache' = IF ResultsAggregates /\ ~collection.raises
                                THEN ProcessedResults ELSE results_cache
            /\ query_stats' = StatsAfterGetRows
       ELSE UNCHANGED <<query_stats, aggregated, results_cache, counts>>
    /\ UNCHANGED <<inputs, database>>

NextRows ==
    \/ EvalResults
    \/ EvalCountTotal
    \/ EvalCountFiltered
    \/ EvalGetRows

SpecRows == InitRows /\ [][NextRows]_vars

(***************************************************************************)
(* Python str / float / datetime / json primitives used by the Editor.     *)
(***************************************************************************)
PyBool(b) == [type |-> "bool", val |-> b]

UpperLetters ==
    <<"A", "B", "C", "D", "E", "F", "G", "H", "I", "J", "K", "L", "M",
      "N", "O", "P", "Q", "R", "S", "T", "U", "V", "W", "X", "Y", "Z">>

LowerLetters ==
    <<"a", "b", "c", "d", "e", "f", "g", "h", "i", "j", "k", "l", "m",
      "n", "o", "p", "q", "r", "s", "t", "u", "v", "w", "x", "y", "z">>

\* str.lower() on the ASCII alphabet.
Lower(s) ==
    [i \in 1..Len(s) |->
        IF \E k \in 1..Len(UpperLetters) : UpperLetters[k] = s[i]
        THEN LowerLetters[CHOOSE k \in 1..Len(UpperLetters) : UpperLetters[k] = s[i]]
        ELSE s[i]]

\* str.endswith
EndsWith(s, p) == Len(s) >= Len(p) /\ SubSeq(s, Len(s) - Len(p) + 1, Len(s)) = p

\* c in s, for a one-character c.
Contains(s, c) == IndexOf(s, c) # 0

\* The float m / 10^places, without trailing zeros of the fraction; a float
\* with an integral value is Float(m).
RECURSIVE FloatOf(_, _)
FloatOf(m, places) ==
    IF places = 0 THEN Float(m)
    ELSE IF m % 10 = 0 THEN FloatOf(m \div 10, places - 1)
    ELSE [type |-> "float", val |-> m, places |-> places]

RECURSIVE Pow10(_)
Pow10(n) == IF n = 0 THEN 1 ELSE 10 * Pow10(n - 1)

\* float(s) of a string that holds a decimal point: surrounding whitespace
\* is ignored, one leading sign is allowed, then digits, the point and
\* digits, one of the two runs of digits possibly empty.  ok = FALSE is
\* ValueError.  (The alphabet has no exponent, underscore, "inf" or "nan".)
ParseFloat(s) ==
    LET t == Strip(s)
        signed == t # <<>> /\ Head(t) \in {"-", "+"}
        body == IF signed THEN Tail(t) ELSE t
        parts == SplitOn(body, ".")
        whole == parts[1]
        frac == parts[2]
        m == DigitsValue(whole) * Pow10(Len(frac)) + DigitsValue(frac)
    IN  IF /\ Len(parts) = 2
           /\ whole \o frac # <<>>
           /\ \A i \in 1..Len(whole) : IsDigit(whole[i])
           /\ \A i \in 1..Len(frac) : IsDigit(frac[i])
        THEN [ok |-> TRUE,
              val |-> FloatOf(IF signed /\ Head(t) = "-" THEN 0 - m ELSE m, Len(frac))]
        ELSE [ok |-> FALSE, val |-> Float(0)]

\* Two decimal digits below bound: ok and the value.
TwoDigits(s, bound) ==
    IF Len(s) = 2 /\ IsDigit(s[1]) /\ IsDigit(s[2]) /\ DigitsValue(s) < bound
    THEN [ok |-> TRUE, val |-> DigitsValue(s)]
    ELSE [ok |-> FALSE, val |-> 0]

\* The time of day HH[:MM[:SS]] of an ISO string.
ParseTime(s) ==
    LET parts == SplitOn(s, ":")
        hh == TwoDigits(parts[1], 24)
        mi == IF Len(parts) >= 2 THEN TwoDigits(parts[2], 60) ELSE [ok |-> TRUE, val |-> 0]
        ss == IF Len(parts) >= 3 THEN TwoDigits(parts[3], 60) ELSE [ok |-> TRUE, val |-> 0]
    IN  [ok |-> Len(parts) <= 3 /\ hh.ok /\ mi.ok /\ ss.ok,
         hour |-> hh.val, minute |-> mi.val, second |-> ss.val]

\* datetime.fromisoformat(s): YYYY-MM-DD, then optionally one separator
\* character and HH[:MM[:SS]], then optionally the offset +HH:MM or -HH:MM,
\* which makes the datetime aware (field tz).  ok = FALSE is ValueError.
\* (The alphabet has no fraction of a second.)
DatetimeFromIsoformat(s) ==
    LET bad == [ok |-> FALSE, val |-> None]
        day == SubSeq(s, 1, 10)
        clock == Drop(s, 12)
        at == IF Contains(clock, "+") THEN IndexOf(clock, "+") ELSE IndexOf(clock, "-")
        time == ParseTime(IF at = 0 THEN clock ELSE SubSeq(clock, 1, at - 1))
        offset == IF at = 0 THEN <<>> ELSE Drop(clock, at)
        offset_ok ==
            \/ at = 0
            \/ /\ Len(offset) = 6
               /\ offset[4] = ":"
               /\ TwoDigits(SubSeq(offset, 2, 3), 24).ok
               /\ TwoDigits(SubSeq(offset, 5, 6), 60).ok
        date_ok ==
            /\ Len(s) >= 10
            /\ day[5] = "-" /\ day[8] = "-"
            /\ \A i \in {1, 2, 3, 4, 6, 7, 9, 10} : IsDigit(day[i])
            /\ MakeDatetime(DigitsValue(SubSeq(day, 1, 4)), DigitsValue(SubSeq(day, 6, 7)),
                            DigitsValue(SubSeq(day, 9, 10))).ok
        y == DigitsValue(SubSeq(day, 1, 4))
        m == DigitsValue(SubSeq(day, 6, 7))
        d == DigitsValue(SubSeq(day, 9, 10))
    IN  IF ~date_ok THEN bad
        ELSE IF Len(s) = 10 THEN [ok |-> TRUE, val |-> Datetime(y, m, d, 0, 0, 0)]
        ELSE IF Len(s) = 11 \/ ~time.ok \/ ~offset_ok THEN bad
        ELSE [ok |-> TRUE,
              val |-> IF at = 0 THEN Datetime(y, m, d, time.hour, time.minute, time.second)
                      ELSE Datetime(y, m, d, time.hour, time.minute, time.second)
                           @@ [tz |-> offset]]

\* datetime.isoformat() of a naive or an aware datetime.
IsoFormatTz(dt) == IsoFormat(dt) \o (IF "tz" \in DOMAIN dt THEN dt.tz ELSE <<>>)

\* A JSON scalar: true, false, null, an integer or decimal number without
\* leading zeros, or a string between double quotes (the alphabet has no
\* backslash and no exponent).
JsonScalar(t) ==
    LET bad == [ok |-> FALSE, val |-> None]
        negative == t # <<>> /\ Head(t) = "-"
        body == IF negative THEN Tail(t) ELSE t
        parts == SplitOn(body, ".")
        whole == parts[1]
        frac == IF Len(parts) = 2 THEN parts[2] ELSE <<>>
        whole_ok == AllDigits(whole) /\ (Len(whole) = 1 \/ whole[1] # "0")
        sign == IF negative THEN -1 ELSE 1
    IN  IF t = <<"t", "r", "u", "e">> THEN [ok |-> TRUE, val |-> PyBool(TRUE)]
        ELSE IF t = <<"f", "a", "l", "s", "e">> THEN [ok |-> TRUE, val |-> PyBool(FALSE)]
        ELSE IF t = <<"n", "u", "l", "l">> THEN [ok |-> TRUE, val |-> None]
        ELSE IF Len(t) >= 2 /\ t[1] = "\"" /\ t[Len(t)] = "\""
        THEN (IF Contains(SubSeq(t, 2, Len(t) - 1), "\"") THEN bad
              ELSE [ok |-> TRUE, val |-> PyStr(SubSeq(t, 2, Len(t) - 1))])
        ELSE IF Len(parts) = 1 /\ whole_ok
        THEN [ok |-> TRUE, val |-> PyInt(sign * DigitsValue(whole))]
        ELSE IF Len(parts) = 2 /\ whole_ok /\ AllDigits(frac)
        THEN [ok |-> TRUE,
              val |-> FloatOf(sign * (DigitsValue(whole) * Pow10(Len(frac))
                                      + DigitsValue(frac)),
                              Len(frac))]
        ELSE bad

\* json.loads(s): a scalar, or an array of scalars between brackets (the
\* strings of the alphabet hold no object, no array inside an array and no
\* comma inside a quoted string).  ok = FALSE is json.JSONDecodeError.
JsonLoads(s) ==
    LET t == Strip(s)
        inner == Strip(SubSeq(t, 2, Len(t) - 1))
        parts == SplitOn(inner, ",")
        items == [i \in 1..Len(parts) |-> JsonScalar(Strip(parts[i]))]
    IN  IF Len(t) >= 2 /\ t[1] = "[" /\ t[Len(t)] = "]"
        THEN (IF inner = <<>> THEN [ok |-> TRUE, val |-> PyList(<<>>)]
              ELSE IF \A i \in 1..Len(items) : items[i].ok
              THEN [ok |-> TRUE, val |-> PyList([i \in 1..Len(items) |-> items[i].val])]
              ELSE [ok |-> FALSE, val |-> None])
        ELSE JsonScalar(t)

(***************************************************************************)
(* Editor.  request_args holds the optional keys action (a string) and     *)
(* data (a dict from row keys to rows); doc_id is the comma-separated list *)
(* of ids; existing is the sequence of documents of the collection and     *)
(* operations the calls the collection has received.  The call number      *)
(* collection.fails_at (none when 0) raises an exception whose message is  *)
(* collection.message.  The keys of a response are written as strings.     *)
(***************************************************************************)
\* The message of an exception: its text and the value it quotes.
Message(text, about) == [text |-> text, about |-> about]

RaisedWith(exc, message) == [op |-> "raise", exc |-> exc, message |-> message]

\* {"error": str(e)}
ErrorResponse(message) == PyDict(<<[key |-> "error", val |-> message]>>)

\* {"data": rows}
DataResponse(rows) == PyDict(<<[key |-> "data", val |-> PyList(rows)]>>)

action == GetOr(request_args, "action", "")

data == GetOr(request_args, "data", <<>>)

list_of_ids == IF doc_id = <<>> THEN <<>> ELSE SplitOn(doc_id, ",")

\* bson's ObjectId(s): 24 hexadecimal characters, InvalidId otherwise.
IsHex(c) == IsDigit(c) \/ c \in {"a", "b", "c", "d", "e", "f", "A", "B", "C", "D", "E", "F"}

ValidObjectId(s) == Len(s) = 24 /\ \A i \in 1..Len(s) : IsHex(s[i])

ObjectIdOf(s) == ObjectId(Lower(s))

InvalidIdMessage(s) ==
    Message("is not a valid ObjectId, it must be a 12-byte input or a 24-character hex string", s)

\* self.field_types.get(full_key, 'string')
EditorFieldType(full_key) ==
    IF FieldType(data_fields, full_key) = "None" THEN "string"
    ELSE FieldType(data_fields, full_key)

s_Z == <<"Z">>

s_utc == <<"+", "0", "0", ":", "0", "0">>

s_midnight == <<"T", "0", "0", ":", "0", "0", ":", "0", "0">>

TrueWords ==
    {<<"t", "r", "u", "e">>, <<"y", "e", "s">>, <<"1">>, <<"t">>, <<"y">>}

\* The value of a conversion, or the fallback of its except clause.
ValueOr(result, fallback) == IF result.ok THEN result.val ELSE fallback

IntOr(result, fallback) == IF result.ok THEN PyInt(result.val) ELSE fallback

\* Coerce without the except clauses of the number and the date: a string
\* that does not convert is dropped to None.
Coerce_NoFallback(field_type, value) ==
    IF value.type # "str" THEN value
    ELSE IF field_type = "date"
    THEN ValueOr(DatetimeFromIsoformat(IF Contains(value.val, "T")
                                       THEN Replace(value.val, s_Z, s_utc)
                                       ELSE value.val \o s_midnight),
                 None)
    ELSE IF field_type = "number"
    THEN (IF Contains(value.val, ".") THEN ValueOr(ParseFloat(value.val), None)
          ELSE IntOr(ParseNumber(value.val), None))
    ELSE IF field_type = "boolean" THEN PyBool(Lower(value.val) \in TrueWords)
    ELSE IF field_type = "array" THEN ValueOr(JsonLoads(value.val), PyList(<<value>>))
    ELSE value

\* The leaf branch of _process_updates: the value stored under full_key for
\* a leaf of the declared type.
Coerce(field_type, value) ==
    IF value.type # "str" THEN value
    ELSE IF field_type = "date"
    THEN ValueOr(DatetimeFromIsoformat(IF Contains(value.val, "T")
                                       THEN Replace(value.val, s_Z, s_utc)
                                       ELSE value.val \o s_midnight),
                 value)
    ELSE IF field_type = "number"
    THEN (IF Contains(value.val, ".") THEN ValueOr(ParseFloat(value.val), value)
          ELSE IntOr(ParseNumber(value.val), value))
    ELSE IF field_type = "boolean" THEN PyBool(Lower(value.val) \in TrueWords)
    ELSE IF field_type = "array" THEN ValueOr(JsonLoads(value.val), PyList(<<value>>))
    ELSE value

\* _process_updates(data, updates, prefix): the updates after the call.
RECURSIVE ProcessUpdates(_, _, _)
RECURSIVE ProcessItems(_, _, _)
ProcessUpdates(row, updates, prefix) ==
    IF row.type # "dict" THEN updates
    ELSE ProcessItems(row.items, updates, prefix)

\* The loop of _process_updates over the items of a dict.
ProcessItems(items, updates, prefix) ==
    IF items = <<>> THEN updates
    ELSE LET key == Head(items).key
             value == Head(items).val
             full_key == IF prefix # <<>> THEN prefix \o <<".">> \o key ELSE key
         IN  ProcessItems(Tail(items),
                          IF value.type = "NoneType" THEN updates
                          ELSE IF value.type = "dict"
                          THEN ProcessUpdates(value, updates, full_key)
                          ELSE DictSet(updates, full_key,
                                       Coerce(EditorFieldType(full_key), value)),
                          prefix)

\* _format_response_document(doc) of a document that is not None.
FormatResponseDocument(doc) ==
    LET response_doc ==
            IF DictHas(doc, s__id)
            THEN DictSet(DictDel(doc, s__id), s_DT_RowId, StrOf(DictGet(doc, s__id)))
            ELSE doc
    IN  [i \in 1..Len(response_doc) |->
            [key |-> response_doc[i].key,
             val |-> IF response_doc[i].val.type = "ObjectId"
                     THEN StrOf(response_doc[i].val)
                     ELSE IF response_doc[i].val.type = "datetime"
                     THEN PyStr(IsoFormatTz(response_doc[i].val))
                     ELSE response_doc[i].val]]

\* dict(None) in _format_response_document.
NoneIsNotIterable == Message("'NoneType' object is not iterable", <<>>)

\* ---- the collection ----

\* A value as the collection returns it: a datetime comes back naive, in
\* UTC (the offsets of the alphabet are +00:00).
RECURSIVE Stored(_)
Stored(val) ==
    IF val.type = "datetime"
    THEN Datetime(val.year, val.month, val.day, val.hour, val.minute, val.second)
    ELSE IF val.type = "dict"
    THEN PyDict([i \in 1..Len(val.items) |->
                    [key |-> val.items[i].key, val |-> Stored(val.items[i].val)]])
    ELSE IF val.type = "list"
    THEN PyList([i \in 1..Len(val.items) |-> Stored(val.items[i])])
    ELSE val

\* d[parts[1]][parts[2]]... = value, creating the dicts on the way; ok =
\* FALSE when a value on the way is no dict.
RECURSIVE SetPath(_, _, _)
SetPath(d, parts, value) ==
    IF Len(parts) = 1 THEN [ok |-> TRUE, items |-> DictSet(d, parts[1], value)]
    ELSE IF ~DictHas(d, parts[1])
    THEN [ok |-> TRUE,
          items |-> DictSet(d, parts[1], PyDict(SetPath(<<>>, Tail(parts), value).items))]
    ELSE IF DictGet(d, parts[1]).type # "dict" THEN [ok |-> FALSE, items |-> d]
    ELSE [ok |-> SetPath(DictGet(d, parts[1]).items, Tail(parts), value).ok,
          items |-> DictSet(d, parts[1],
                            PyDict(SetPath(DictGet(d, parts[1]).items,
                                           Tail(parts), value).items))]

\* The document after {"$set": updates}.
RECURSIVE ApplySet(_, _)
ApplySet(doc, updates) ==
    IF updates = <<>> THEN doc
    ELSE ApplySet(SetPath(doc, SplitOn(Head(updates).key, "."),
                          Stored(Head(updates).val)).items,
                  Tail(updates))

HasId(doc, oid) == DictHas(doc, s__id) /\ DictGet(doc, s__id) = oid

\* find_one({"_id": oid}): <<>> for None, else the document in a sequence.
FindOne(docs, oid) ==
    IF \E i \in 1..Len(docs) : HasId(docs[i], oid)
    THEN <<docs[CHOOSE i \in 1..Len(docs) : HasId(docs[i], oid)]>>
    ELSE <<>>

\* The documents after delete_one({"_id": oid}).
DeleteOne(docs, oid) ==
    LET Stays(doc) == ~HasId(doc, oid) IN SelectSeq(docs, Stays)

\* The documents after update_one({"_id": oid}, {"$set": updates}).
UpdateOne(docs, oid, updates) ==
    [i \in 1..Len(docs) |->
        IF HasId(docs[i], oid) THEN ApplySet(docs[i], updates) ELSE docs[i]]

\* The state a handler runs from and leaves: the calls received and the
\* documents of the collection, the rows of the response built so far, and
\* the message of the exception caught (none when <<>>).
Running == [operations |-> operations, existing |-> existing, rows |-> <<>>,
            error |-> <<>>]

Failed(st) == st.error # <<>>

\* A call of the collection: it is received, and raises when it is the
\* call that fails.
Call(st, call) ==
    IF collection.fails_at = Len(st.operations) + 1
    THEN [st EXCEPT !.operations = Append(@, call), !.error = <<collection.message>>]
    ELSE [st EXCEPT !.operations = Append(@, call)]

\* The state after a call that has been received: as it is when the call
\* raised, else with the documents the call leaves.
Applied(after, docs) == IF Failed(after) THEN after ELSE [after EXCEPT !.existing = docs]

\* {"error": str(e)} of the except clause, or the response of the try block.
\* A handler whose except clause is missing from the response.
Response_IgnoresFailure(st, response) == response

Response(st, response) == IF Failed(st) THEN ErrorResponse(st.error[1]) ELSE response

\* ---- Editor.remove ----

\* The loop of remove over the ids: ObjectId(doc_id), then delete_one.
\* A remove that undoes the deletes already applied when an id is refused.
RECURSIVE RemoveFrom_Atomic(_, _)
RemoveFrom_Atomic(ids, st) ==
    IF ids = <<>> \/ Failed(st) THEN st
    ELSE IF ~ValidObjectId(Head(ids))
    THEN [st EXCEPT !.error = <<InvalidIdMessage(Head(ids))>>, !.existing = existing]
    ELSE RemoveFrom_Atomic(Tail(ids),
                           Applied(Call(st, [op |-> "delete_one", id |-> ObjectIdOf(Head(ids))]),
                                   DeleteOne(st.existing, ObjectIdOf(Head(ids)))))

RECURSIVE RemoveFrom(_, _)
RemoveFrom(ids, st) ==
    IF ids = <<>> \/ Failed(st) THEN st
    ELSE IF ~ValidObjectId(Head(ids))
    THEN [st EXCEPT !.error = <<InvalidIdMessage(Head(ids))>>]
    ELSE RemoveFrom(Tail(ids),
                    Applied(Call(st, [op |-> "delete_one", id |-> ObjectIdOf(Head(ids))]),
                            DeleteOne(st.existing, ObjectIdOf(Head(ids)))))

\* remove() without a list of ids raises before its try block.
RemoveRaises == list_of_ids = <<>>

RemoveOutcome == IF RemoveRaises THEN Running ELSE RemoveFrom(list_of_ids, Running)

remove ==
    IF RemoveRaises
    THEN RaisedWith("ValueError",
                    Message("Document ID is required for remove operation", <<>>))
    ELSE Response(RemoveOutcome, PyDict(<<>>))

\* ---- Editor.edit ----

\* find_one and _format_response_document in the loop of edit.
Lookup(looked, oid) ==
    IF Failed(looked) THEN looked
    ELSE IF FindOne(looked.existing, oid) = <<>>
    THEN [looked EXCEPT !.error = <<NoneIsNotIterable>>]
    ELSE [looked EXCEPT !.rows =
             Append(@, PyDict(FormatResponseDocument(FindOne(looked.existing, oid)[1])))]

\* update_one, when there are updates, then the lookup.
Update(st, oid, updates) ==
    IF updates = <<>> THEN Lookup(Call(st, [op |-> "find_one", id |-> oid]), oid)
    ELSE IF Failed(Call(st, [op |-> "update_one", id |-> oid, set |-> updates]))
    THEN Call(st, [op |-> "update_one", id |-> oid, set |-> updates])
    ELSE Lookup(Call(Applied(Call(st, [op |-> "update_one", id |-> oid, set |-> updates]),
                             UpdateOne(st.existing, oid, updates)),
                     [op |-> "find_one", id |-> oid]),
                oid)

\* The body of the loop of edit for an id that has an entry in the data.
EditOne(id, st) ==
    IF ~ValidObjectId(id) THEN [st EXCEPT !.error = <<InvalidIdMessage(id)>>]
    ELSE Update(st, ObjectIdOf(id), ProcessUpdates(DictGet(data, id), <<>>, <<>>))

\* EditFrom without the test for an entry of the data: the document of an
\* id without entry is looked up and added to the response.
RECURSIVE EditFrom_LooksUpUnknown(_, _)
EditFrom_LooksUpUnknown(ids, st) ==
    IF ids = <<>> \/ Failed(st) THEN st
    ELSE IF ~DictHas(data, Head(ids))
    THEN EditFrom_LooksUpUnknown(
             Tail(ids),
             IF ValidObjectId(Head(ids))
             THEN Lookup(Call(st, [op |-> "find_one", id |-> ObjectIdOf(Head(ids))]),
                         ObjectIdOf(Head(ids)))
             ELSE st)
    ELSE EditFrom_LooksUpUnknown(Tail(ids), EditOne(Head(ids), st))

\* The loop of edit over the ids.
RECURSIVE EditFrom(_, _)
EditFrom(ids, st) ==
    IF ids = <<>> \/ Failed(st) THEN st
    ELSE IF ~DictHas(data, Head(ids)) THEN EditFrom(Tail(ids), st)
    ELSE EditFrom(Tail(ids), EditOne(Head(ids), st))

EditRaises == list_of_ids = <<>>

EditOutcome == IF EditRaises THEN Running ELSE EditFrom(list_of_ids, Running)

DataOf(st) == DataResponse(st.rows)

edit ==
    IF EditRaises
    THEN RaisedWith("ValueError",
                    Message("Document ID is required for edit operation", <<>>))
    ELSE Response(EditOutcome, DataOf(EditOutcome))

\* ---- Editor.create ----
s_0 == <<"0">>

DateSuffixes == {<<"d", "a", "t", "e">>, <<"t", "i", "m", "e">>, <<"a", "t">>}

\* processed_doc[key] = val, or dot_notation_updates[key] = val for a key
\* with a dot.
Put(acc, key, val) ==
    IF Contains(key, ".") THEN [acc EXCEPT !.dots = DictSet(@, key, val)]
    ELSE [acc EXCEPT !.main = DictSet(@, key, val)]

\* The body of the loop of _preprocess_document for one item, json and
\* parsed the results of json.loads and datetime.fromisoformat on a string.
PreprocessItem(acc, key, val, json, parsed) ==
    IF val.type = "str" /\ json.ok THEN Put(acc, key, json.val)
    ELSE IF /\ val.type = "str"
            /\ \E suffix \in DateSuffixes : EndsWith(Lower(key), suffix)
            /\ Strip(val.val) # <<>>
    THEN (IF parsed.ok THEN Put(acc, key, parsed.val)
          ELSE IF Contains(key, ".") THEN Put(acc, key, val)
          ELSE acc)
    ELSE IF Contains(key, ".") THEN Put(acc, key, val)
    ELSE acc

\* The loop of _preprocess_document over the items that are not None: the
\* processed document (main) and the dot notation updates (dots).
RECURSIVE Preprocess(_, _)
Preprocess(items, acc) ==
    IF items = <<>> THEN acc
    ELSE Preprocess(Tail(items),
                    PreprocessItem(acc, Head(items).key, Head(items).val,
                                   JsonLoads(Head(items).val.val),
                                   DatetimeFromIsoformat(
                                       Replace(Head(items).val.val, s_Z, s_utc))))

WithoutNone(doc) == LET Set(e) == e.val.type # "NoneType" IN SelectSeq(doc, Set)

WithoutDotted(acc) ==
    [acc EXCEPT !.main = LET Plain(e) == ~Contains(e.key, ".") IN SelectSeq(@, Plain)]

\* _preprocess_document(doc)
PreprocessDocument(doc) ==
    WithoutDotted(Preprocess(WithoutNone(doc), [main |-> WithoutNone(doc), dots |-> <<>>]))

\* The loop of create over the dot notation updates: the nested document,
\* ok = FALSE when a value on a path is no dict (a TypeError; the values of
\* the alphabet on such a path are strings).
RECURSIVE BuildNested(_, _)
BuildNested(built, dots) ==
    IF dots = <<>> \/ ~built.ok THEN built
    ELSE BuildNested(SetPath(built.items, SplitOn(Head(dots).key, "."), Head(dots).val),
                     Tail(dots))

\* data_obj of create, from the result of _preprocess_document.
DataObj(preprocessed) ==
    BuildNested([ok |-> TRUE, items |-> preprocessed.main], preprocessed.dots)

\* result.inserted_id of a document without _id: a new identifier.
InsertedId(st) ==
    ObjectId(<<"f">> \o Pad2(Cardinality({i \in 1..Len(st.operations) :
                                             st.operations[i].op = "insert_one"}))
             \o [i \in 1..21 |-> "0"])

\* find_one({"_id": result.inserted_id}) and the response row.
Created(looked, oid) ==
    IF Failed(looked) THEN looked
    ELSE [looked EXCEPT !.rows =
             <<PyDict(FormatResponseDocument(FindOne(looked.existing, oid)[1]))>>]

\* insert_one(data_obj), then the lookup of the inserted document.
Insert(st, data_obj) ==
    IF ~data_obj.ok
    THEN [st EXCEPT !.error = <<Message("object does not support item assignment",
                                        <<"str">>)>>]
    ELSE IF Failed(Call(st, [op |-> "insert_one", document |-> data_obj.items]))
    THEN Call(st, [op |-> "insert_one", document |-> data_obj.items])
    ELSE Created(Call(Applied(Call(st, [op |-> "insert_one", document |-> data_obj.items]),
                              Append(st.existing,
                                     <<[key |-> s__id, val |-> InsertedId(st)]>>
                                     \o Stored(PyDict(data_obj.items)).items)),
                      [op |-> "find_one", id |-> InsertedId(st)]),
                 InsertedId(st))

CreateRaises == data = <<>> \/ ~DictHas(data, s_0)

CreateOutcome ==
    IF CreateRaises THEN Running
    ELSE IF DictGet(data, s_0).type # "dict"
    THEN [Running EXCEPT !.error = <<Message("object has no attribute 'items'",
                                             <<DictGet(data, s_0).type>>)>>]
    ELSE Insert(Running, DataObj(PreprocessDocument(DictGet(data, s_0).items)))

create ==
    IF CreateRaises
    THEN RaisedWith("ValueError", Message("Data is required for create operation", <<>>))
    ELSE Response(CreateOutcome, DataOf(CreateOutcome))

\* ---- Editor.process ----
actions == {"create", "edit", "remove"}

ProcessOutcome ==
    IF action = "create" THEN CreateOutcome
    ELSE IF action = "edit" THEN EditOutcome
    ELSE IF action = "remove" THEN RemoveOutcome
    ELSE Running

\* process that answers an unsupported action with an empty response.
process_Lenient ==
    IF action \notin actions THEN PyDict(<<>>)
    ELSE IF action = "create" THEN create
    ELSE IF action = "edit" THEN edit
    ELSE remove

process ==
    IF action \notin actions
    THEN RaisedWith("ValueError", Message("Unsupported action: ", <<action>>))
    ELSE IF action = "create" THEN create
    ELSE IF action = "edit" THEN edit
    ELSE remove

\* What a handler leaves of the collection.
Leaves(st) == operations' = st.operations /\ existing' = st.existing

\* ---- the Editor's requests ----

\* Bound of the behaviours: a handler starts only while the collection has
\* received fewer calls than this.
MaxOps == 2

Hex24(first) == <<first>> \o [i \in 1..23 |-> "0"]

\* Two identifiers with a document, one without, and a string that is no
\* identifier.
Id1 == Hex24("a")

Id2 == Hex24("b")

Id3 == Hex24("c")

s_bad == <<"b", "a", "d">>

s_active == <<"a", "c", "t", "i", "v", "e">>

s_tags == <<"t", "a", "g", "s">>

s_stats == <<"s", "t", "a", "t", "s">>

s_info == <<"i", "n", "f", "o">>

s_created_at == <<"c", "r", "e", "a", "t", "e", "d", "_", "a", "t">>

s_Paris == <<"P", "a", "r", "i", "s">>

EditorFields ==
    <<DataField(s_name, "string", s_name), DataField(s_age, "number", s_age),
      DataField(s_joined, "date", s_joined), DataField(s_active, "boolean", s_active),
      DataField(s_tags, "array", s_tags), DataField(s_stats_age, "number", s_age),
      DataField(s_info_joined, "date", s_joined)>>

EditorDocs ==
    <<Doc(<<<<s__id, ObjectId(Id1)>>, <<s_name, PyStr(s_John)>>, <<s_age, PyInt(42)>>>>),
      Doc(<<<<s__id, ObjectId(Id2)>>, <<s_name, PyStr(s_Doe)>>,
            <<s_joined, Datetime(2020, 1, 1, 0, 0, 0)>>>>)>>

\* Rows of a request: strings that convert and strings that do not under
\* every declared type, nested rows, null leaves, leaves that are no
\* strings, a row without a leaf, a row with a dotted key and a row that is
\* no dict.
Rows ==
    <<PyDict(Doc(<<<<s_name, PyStr(s_John)>>, <<s_age, PyStr(s_42)>>>>)),
      PyDict(Doc(<<<<s_age, PyStr(s_abc)>>,
                   <<s_joined, PyStr(<<"n", "o", "t", "-", "a", "-", "d", "a", "t", "e">>)>>,
                   <<s_tags, PyStr(<<"a", ",", "b">>)>>,
                   <<s_active, PyStr(<<"n", "o">>)>>>>)),
      PyDict(Doc(<<<<s_age, PyStr(<<"4", ".", "5", "0">>)>>,
                   <<s_joined, PyStr(IsoDate(2023, 1, 15))>>,
                   <<s_active, PyStr(<<"Y", "e", "s">>)>>,
                   <<s_tags, PyStr(<<"[", "1", ",", " ", "2", "]">>)>>>>)),
      PyDict(Doc(<<<<s_stats, PyDict(Doc(<<<<s_age, PyStr(<<"7">>)>>>>))>>,
                   <<s_name, None>>,
                   <<s_info, PyDict(Doc(<<<<s_joined, None>>>>))>>>>)),
      PyDict(Doc(<<<<s_name, None>>>>)),
      PyDict(Doc(<<<<s_joined,
                     PyStr(IsoDate(2023, 1, 15)
                           \o <<"T", "1", "0", ":", "3", "0", ":", "0", "0", "Z">>)>>,
                   <<s_info, PyDict(Doc(<<<<s_joined, PyStr(IsoDate(2023, 2, 30))>>>>))>>,
                   <<s_age, PyStr(<<"1", ".", "2", ".", "3">>)>>>>)),
      PyDict(Doc(<<<<s_age, PyInt(5)>>, <<s_active, PyBool(TRUE)>>,
                   <<s_tags, PyList(<<PyStr(s_abc)>>)>>>>)),
      PyDict(Doc(<<<<s_name, PyStr(s_Doe)>>,
                   <<s_created_at, PyStr(IsoDate(2023, 1, 15))>>,
                   <<s_address_city, PyStr(s_Paris)>>,
                   <<s_tags, PyStr(<<"[", "1", ",", " ", "2", "]">>)>>>>)),
      PyStr(s_abc)>>

\* A row of create with a dotted key under a key that holds a string.
ConflictRow ==
    PyDict(Doc(<<<<s_address, PyStr(s_abc)>>, <<s_address_city, PyStr(s_Paris)>>>>))

\* The data of a request: none, or rows under the key of create and under
\* the identifiers.
EditorData ==
    <<<<>>>>
    \o [r \in 1..Len(Rows) |-> [data |-> Doc(<<<<s_0, Rows[r]>>>>)]]
    \o <<[data |-> Doc(<<<<s_0, ConflictRow>>>>)]>>
    \o [r \in 1..Len(Rows) |-> [data |-> Doc(<<<<Id1, Rows[r]>>>>)]]
    \o <<[data |-> Doc(<<<<Id1, Rows[1]>>, <<Id2, Rows[3]>>>>)],
          [data |-> Doc(<<<<Id2, Rows[1]>>>>)],
          [data |-> Doc(<<<<Id3, Rows[1]>>>>)],
          [data |-> Doc(<<<<s_bad, Rows[1]>>>>)]>>

DocIds ==
    {<<>>, Id1, Id3, s_bad, Join(<<Id1, Id2>>, <<",">>),
     Join(<<Id1, s_bad, Id2>>, <<",">>), Join(<<Id3, Id1>>, <<",">>)}

\* Editor(pymongo_object, collection_name, request_args, doc_id, data_fields)
\* over the collection whose call number fails raises.
ConstructEditor(args, ids, fails) ==
    /\ request_args = args
    /\ doc_id = ids
    /\ data_fields = EditorFields
    /\ collection = [fails_at |-> fails, message |-> Message("Database error", <<>>)]
    /\ existing = EditorDocs
    /\ operations = <<>>
    /\ use_text_index = FALSE
    /\ has_text_index = FALSE
    /\ debug_mode = FALSE
    /\ custom_filter = EmptyDoc
    /\ query_stats = StatsAtInit(FALSE)
    /\ aggregated = <<>>
    /\ results_cache = None
    /\ counted = <<>>
    /\ records_total = None
    /\ records_filtered = None
    /\ called = ""
    /\ returned = EmptyDoc

\* The data sent with an action: rows under identifiers for edit, under the
\* key of create for create, none for remove.
DataSent(act) ==
    IF act = "edit" THEN {1} \cup ((Len(Rows) + 3)..Len(EditorData))
    ELSE IF act = "create" THEN 1..(Len(Rows) + 3)
    ELSE {1}

\* The requests of the three actions.
InitActions ==
    \E act \in actions, ids \in DocIds, fails \in 0..MaxOps :
        \E d \in DataSent(act) :
            /\ act = "create" => ids = <<>>
            /\ ConstructEditor([action |-> act] @@ EditorData[d], ids, fails)

\* Requests without action and with an action that is none of the three.
InitOther ==
    \E act \in {<<>>, [action |-> "upload"]}, d \in {1, 2, Len(Rows) + 3},
       ids \in {<<>>, Id1}, fails \in {0, 1} :
        ConstructEditor(act @@ EditorData[d], ids, fails)

InitEditor == InitActions \/ InitOther

EvalProcess ==
    /\ Len(operations) < MaxOps
    /\ called' = "process"
    /\ returned' = process
    /\ Leaves(ProcessOutcome)
    /\ UNCHANGED <<inputs, query_stats, aggregated, results_cache, counts>>

EvalCreate ==
    /\ Len(operations) < MaxOps
    /\ called' = "create"
    /\ returned' = create
    /\ Leaves(CreateOutcome)
    /\ UNCHANGED <<inputs, query_stats, aggregated, results_cache, counts>>

EvalEdit ==
    /\ Len(operations) < MaxOps
    /\ called' = "edit"
    /\ returned' = edit
    /\ Leaves(EditOutcome)
    /\ UNCHANGED <<inputs, query_stats, aggregated, results_cache, counts>>

EvalRemove ==
    /\ Len(operations) < MaxOps
    /\ called' = "remove"
    /\ returned' = remove
    /\ Leaves(RemoveOutcome)
    /\ UNCHANGED <<inputs, query_stats, aggregated, results_cache, counts>>

NextEditor ==
    \/ EvalProcess
    \/ EvalCreate
    \/ EvalEdit
    \/ EvalRemove

SpecEditor == InitEditor /\ [][NextEditor]_vars

(***************************************************************************)
(* Properties.                                                             *)
(***************************************************************************)

\* The non-empty documents among docs, in order.
NonEmptyDocs(docs) == LET Has(d) == d # EmptyDoc IN SelectSeq(docs, Has)

\* C1: filter is {} when none of the four clause sources (custom filter,
\* global condition, per-column condition, colon-qualified condition) is
\* non-empty, the one non-empty source itself when there is exactly one, and
\* {$and: [...]} of the non-empty sources, the custom filter verbatim, when
\* there are two or more.
C1_FilterCombines ==
    called = "filter" =>
        LET sources == NonEmptyDocs(<<custom_filter, global_search_condition,
                                      column_search_conditions,
                                      column_specific_search_condition>>)
        IN  /\ Len(sources) = 0 => returned = EmptyDoc
            /\ Len(sources) = 1 => returned = sources[1]
            /\ Len(sources) >= 2 =>
                   /\ returned = And(sources)
                   /\ custom_filter # EmptyDoc => returned.args[1] = custom_filter

\* All four sources are present and filter has AND-ed the four of them.
C1_Witness ==
    /\ called = "filter"
    /\ custom_filter = Department
    /\ global_search_condition # EmptyDoc
    /\ column_search_conditions # EmptyDoc
    /\ column_specific_search_condition # EmptyDoc
    /\ returned.op = "$and"
    /\ Len(returned.args) = 4

\* The leaf a free term t gets on one searchable column without a text
\* index: none on a date column, an exact numeric equality on a number column
\* when t parses as a number and none otherwise, a case-insensitive pattern
\* for t on every other (text-like or undeclared) column.
FreeTermLeaf(column, t) ==
    LET type == FieldType(data_fields, column)
    IN  IF type = "date" THEN <<>>
        ELSE IF type = "number"
        THEN (IF ParseNumber(t).ok THEN <<Eq(column, Float(ParseNumber(t).val))>> ELSE <<>>)
        ELSE <<[op |-> "$regex", field |-> column, pattern |-> t, options |-> "i"]>>

FreeTermLeaves(t) ==
    Concat([c \in 1..Len(searchable_columns) |-> FreeTermLeaf(searchable_columns[c], t)])

C3_Case ==
    /\ called = "global_search_condition"
    /\ ~(use_text_index /\ has_text_index)
    /\ Len(search_terms_without_a_colon) >= 2

IsOneQuotedPhrase(s) ==
    /\ Len(s) >= 2
    /\ s[1] \in {"\"", "'"}
    /\ s[Len(s)] = s[1]
    /\ \A i \in 2..(Len(s) - 1) : s[i] # s[1]

\* Whether a $text clause stands anywhere in a document.
RECURSIVE HasText(_)
HasText(d) ==
    \/ d.op = "$text"
    \/ /\ d.op \in {"$and", "$or"}
       /\ \E i \in 1..Len(d.args) : HasText(d.args[i])

\* C4: given a free term and a searchable column, global_search_condition
\* is a $text search exactly when use_text_index is set and the collection
\* has a text index; its $search is the original string when the search is
\* one quoted phrase and the free terms joined by single spaces for any
\* other search; without a usable index neither global_search_condition nor
\* filter holds a $text clause.
C4_TextSearchIffIndexUsable ==
    (/\ called \in {"global_search_condition", "filter"}
     /\ search_terms_without_a_colon # <<>>
     /\ searchable_columns # <<>>)
    => IF use_text_index /\ has_text_index
       THEN called = "global_search_condition" =>
                returned = [op |-> "$text",
                            search |-> IF IsOneQuotedPhrase(search_value)
                                       THEN search_value
                                       ELSE Join(search_terms_without_a_colon, <<" ">>)]
       ELSE ~HasText(returned)

\* The numeric comparison the operator prefix o selects on field for the
\* number n: the longest matching prefix decides.
NumberComparison(field, o, n) ==
    IF o = <<">", "=">> THEN [op |-> "$gte", field |-> field, value |-> Float(n)]
    ELSE IF o = <<"<", "=">> THEN [op |-> "$lte", field |-> field, value |-> Float(n)]
    ELSE IF o = <<">">> THEN [op |-> "$gt", field |-> field, value |-> Float(n)]
    ELSE IF o = <<"<">> THEN [op |-> "$lt", field |-> field, value |-> Float(n)]
    ELSE [op |-> "$eq", field |-> field, value |-> Float(n)]

\* The search is the one term alias:<o><b>, evaluated by
\* column_specific_search_condition, and the alias (or the path it resolves
\* to) is a searchable column whose declared type is type.
ColonCase(a, o, b, type) ==
    /\ called = "column_specific_search_condition"
    /\ search_value = a \o <<":">> \o o \o b
    /\ InSeq(a, searchable_columns) \/ InSeq(DbField(data_fields, a), searchable_columns)
    /\ FieldType(data_fields, DbField(data_fields, a)) = type

NumberLiterals == {<<"2", "1">>, <<"-", "1", "0">>}

\* C5: for a term alias:<o>N on a searchable number field, the condition on
\* the field's storage path is $gte, $lte, $gt, $lt for the prefixes >=, <=,
\* >, < and equality for = or no prefix, on N parsed as a float.
C5_LongestOperatorPrefix ==
    \A a \in Aliases, o \in Operators, b \in NumberLiterals :
        ColonCase(a, o, b, "number") =>
            returned = And(<<NumberComparison(DbField(data_fields, a), o, ParseNumber(b).val)>>)

\* age:>=21 gives {$gte: 21.0} on age.
C5_Witness ==
    /\ ColonCase(s_age, <<">", "=">>, <<"2", "1">>, "number")
    /\ returned = And(<<Cmp(DbField(data_fields, s_age), "$gte", Float(21))>>)
    /\ returned.args[1].field = s_age

\* Midnight of a calendar date and of the day after it.
Midnight(y, m, d) == [type |-> "datetime", year |-> y, month |-> m, day |-> d]

MidnightAfter(y, m, d) ==
    IF d < DaysInMonth(y, m) THEN Midnight(y, m, d + 1)
    ELSE IF m < 12 THEN Midnight(y, m + 1, 1)
    ELSE Midnight(y + 1, 1, 1)

IsCalendarDate(p) == p[2] \in 1..12 /\ p[3] \in 1..DaysInMonth(p[1], p[2])

\* The whole-day condition of an operator prefix o on the date p.
WholeDayCondition(field, o, p) ==
    LET day == Midnight(p[1], p[2], p[3])
        after == MidnightAfter(p[1], p[2], p[3])
    IN  IF o = <<">">> THEN [op |-> "$gte", field |-> field, value |-> after]
        ELSE IF o = <<"<", "=">> THEN [op |-> "$lt", field |-> field, value |-> after]
        ELSE IF o = <<"<">> THEN [op |-> "$lt", field |-> field, value |-> day]
        ELSE IF o = <<">", "=">> THEN [op |-> "$gte", field |-> field, value |-> day]
        ELSE [op |-> "$gte,$lt", field |-> field, gte |-> day, lt |-> after]

\* C6: for a term alias:<o>YYYY-MM-DD on a searchable date field, for every
\* valid calendar date, the condition spans whole days: = or none gives
\* [midnight(d), midnight(d + 1 day)), > gives >= midnight(d + 1 day), <=
\* gives < midnight(d + 1 day), < gives < midnight(d), >= gives >= midnight(d).
C6_DateSpansWholeDays ==
    \A a \in Aliases, o \in Operators, p \in DatePoints :
        (IsCalendarDate(p) /\ ColonCase(a, o, IsoDate(p[1], p[2], p[3]), "date")) =>
            returned = And(<<WholeDayCondition(DbField(data_fields, a), o, p)>>)

\* C7: when the value of a term on a number field does not parse as a
\* number, with or without an operator prefix, the condition is a
\* case-insensitive pattern for the raw value, prefix included.
C7_FallbackMatchesRawValue ==
    \A a \in Aliases, o \in Operators :
        ColonCase(a, o, s_abc, "number") =>
            returned = And(<<[op |-> "$regex", field |-> DbField(data_fields, a),
                              pattern |-> o \o s_abc, options |-> "i"]>>)

\* C8: on a number field the bare value 10-20 is the closed range
\* {$gte: 10.0, $lte: 20.0}, and -10 is the number -10.0 matched exactly.
C8_BareRange ==
    \A a \in Aliases :
        /\ ColonCase(a, <<>>, <<"1", "0", "-", "2", "0">>, "number") =>
               returned = And(<<[op |-> "$gte,$lte", field |-> DbField(data_fields, a),
                                 gte |-> Float(10), lte |-> Float(20)]>>)
        /\ ColonCase(a, <<>>, <<"-", "1", "0">>, "number") =>
               returned = And(<<Eq(DbField(data_fields, a), Float(0 - 10))>>)

\* The alias and the value of a term alias:value.
AliasOf(term) == Strip(SubSeq(term, 1, IndexOf(term, ":") - 1))

ValueOf(term) == Strip(Drop(term, IndexOf(term, ":") + 1))

\* A term contributes when alias and value are non-empty and the alias, or
\* the storage path it resolves to, is a searchable column.
Contributes(term) ==
    /\ AliasOf(term) # <<>>
    /\ ValueOf(term) # <<>>
    /\ \/ InSeq(AliasOf(term), searchable_columns)
       \/ InSeq(DbField(data_fields, AliasOf(term)), searchable_columns)

\* C9: column_specific_search_condition holds exactly one condition per
\* colon-qualified term whose alias and value are non-empty and whose alias
\* (or resolved storage path) is a searchable column, keyed by the resolved
\* storage path; every other term adds nothing, and with no contributing
\* term the result is {}.
C9_ColonTermContributesIffSearchable ==
    called = "column_specific_search_condition" =>
        LET kept == SelectSeq(search_terms_with_a_colon, Contributes)
        IN  IF kept = <<>> THEN returned = EmptyDoc
            ELSE /\ returned.op = "$and"
                 /\ Len(returned.args) = Len(kept)
                 /\ \A i \in 1..Len(kept) :
                        returned.args[i].field = DbField(data_fields, AliasOf(kept[i]))

\* The term joined:2023-01-01 with joined the alias of info.joined and the
\* column listed by its path: the condition is keyed by info.joined.
C9_Witness ==
    /\ called = "column_specific_search_condition"
    /\ data_fields = NestedFields
    /\ search_value = s_joined \o <<":">> \o IsoDate(2023, 1, 1)
    /\ ~InSeq(s_joined, searchable_columns)
    /\ InSeq(s_info_joined, searchable_columns)
    /\ returned.op = "$and"
    /\ returned.args[1].field = s_info_joined

\* The one condition a searchable column with a non-empty search box
\* contributes: a pattern when the box asks for regex semantics, else the
\* value coerced by the declared type with a pattern as the fallback (the
\* boxes hold no ISO date, so a date column falls back to the pattern).
BoxCondition(column) ==
    LET type == FieldType(data_fields, column.data)
        pattern == [op |-> "$regex", field |-> column.data,
                    pattern |-> column.search_value, options |-> "i"]
    IN  IF column.search_regex THEN pattern
        ELSE IF type = "number" /\ ParseNumber(column.search_value).ok
        THEN Eq(column.data, Float(ParseNumber(column.search_value).val))
        ELSE pattern

HasBox(column) == column.searchable /\ column.search_value # <<>>

\* C10: column_search_conditions is the AND of exactly one condition per
\* searchable column with a non-empty search box, coerced by the declared
\* type, a pattern when the value does not parse or regex is requested.
C10_OneConditionPerColumnBox ==
    called = "column_search_conditions" =>
        LET boxes == SelectSeq(columns, HasBox)
        IN  IF boxes = <<>> THEN returned = EmptyDoc
            ELSE returned = And([i \in 1..Len(boxes) |-> BoxCondition(boxes[i])])

\* The search string is pieces joined by single spaces, the i-th of them
\* phrase, and search_terms has returned the terms of the pieces before it,
\* then the one term text, then the terms of the pieces after it.
PhraseIsOneTerm(phrase, text) ==
    \A n \in 1..MaxTerms :
        \A ps \in TermPieceSeqs(n) :
            \A i \in 1..n :
                (Join(ps, <<" ">>) = search_value /\ ps[i] = phrase) =>
                    returned = SearchTermsOf(Join(SubSeq(ps, 1, i - 1), <<" ">>))
                               \o <<text>>
                               \o SearchTermsOf(Join(SubSeq(ps, i + 1, n), <<" ">>))

\* C11: a double-quoted phrase with internal whitespace that stands as its
\* own whitespace-delimited token is returned by search_terms as exactly one
\* term, the phrase without its quotes and not split, at its position among
\* the terms of the rest of the string.
C11_DoubleQuotedPhraseIsOneTerm ==
    called = "search_terms" => PhraseIsOneTerm(DQPhrase, s_John \o <<" ">> \o s_Doe)

\* name:Doe "John Doe" gives the two terms name:Doe and John Doe.
C11_Witness ==
    /\ called = "search_terms"
    /\ search_value = s_name \o <<":">> \o s_Doe \o <<" ">> \o DQPhrase
    /\ returned = <<s_name \o <<":">> \o s_Doe, s_John \o <<" ">> \o s_Doe>>

\* C12: a single-quoted phrase is returned by search_terms as one term with
\* the quotes stripped, not split at its internal whitespace, exactly like a
\* double-quoted one.
C12_SingleQuotedPhraseIsOneTerm ==
    called = "search_terms" => PhraseIsOneTerm(SQPhrase, s_John \o <<" ">> \o s_Doe)

\* A term that still holds a placeholder token.
HasPlaceholder(term) ==
    \E j \in 1..Len(term) : \E k \in 0..(2 * MaxTerms) : term[j] = Placeholder(k)

\* C13: no term that search_terms returns contains a placeholder token; a
\* quoted span attached to other text is put back too, so that the string
\* name:"John Doe" gives the single term name:John Doe.
C13_NoPlaceholderIsReturned ==
    called = "search_terms" =>
        /\ \A i \in 1..Len(returned) : ~HasPlaceholder(returned[i])
        /\ search_value = QualifiedPhrase =>
               returned = <<s_name \o <<":">> \o s_John \o <<" ">> \o s_Doe>>

\* C14: every parsed term is classified exactly once: the terms with exactly
\* one colon are the field-qualified terms, and the terms with no colon or
\* with two or more colons are the free terms, whole and none left out.
C14_EveryTermClassifiedOnce ==
    LET OneColon(t) == Count(t, ":") = 1
        NotOneColon(t) == Count(t, ":") # 1
    IN  /\ called = "search_terms_with_a_colon" =>
               returned = SelectSeq(search_terms, OneColon)
        /\ called = "search_terms_without_a_colon" =>
               returned = SelectSeq(search_terms, NotOneColon)

\* The stages of the pipeline results() has sent last.
SentStages(name) ==
    LET plan == aggregated[Len(aggregated)]
        Named(st) == st.stage = name
    IN  SelectSeq(plan, Named)

\* C15: a request with length 0 gets zero rows, and a request with length -1
\* gets a pipeline without any $limit stage; the two are never the same plan.
C15_ZeroLengthIsNotUnbounded ==
    (called = "results" /\ aggregated # <<>> /\ "length" \in DOMAIN request_args) =>
        /\ request_args.length = PyInt(0) => returned = PyList(<<>>)
        /\ request_args.length = PyInt(-1) => SentStages("$limit") = <<>>

\* An order entry that names a column of the request with a data path.
Resolves(entry) ==
    /\ entry.column.val < Len(columns)
    /\ columns[entry.column.val + 1].data # <<>>

\* The key an order entry sorts on: the data of its column through the
\* alias-to-path mapping.
SortKey(entry) == DbField(data_fields, columns[entry.column.val + 1].data)

order_list == GetOr(request_args, "order", <<>>)

\* C16: the sort specification has one key per (column index, direction)
\* pair of the order list, in the order of the list, each resolved through
\* the column list and the alias-to-path mapping.
C16_OneSortKeyPerOrderEntry ==
    (/\ called = "get_sort_specification"
     /\ \A i \in 1..Len(order_list) :
            /\ Resolves(order_list[i])
            /\ "dir" \in DOMAIN order_list[i]
            /\ order_list[i].dir \in {"asc", "desc"}
            /\ \A j \in 1..Len(order_list) :
                   SortKey(order_list[i]) = SortKey(order_list[j]) => i = j)
    => /\ "exc" \notin DOMAIN returned
       /\ Len(returned.items) >= Len(order_list)
       /\ \A i \in 1..Len(order_list) :
              returned.items[i] = [key |-> SortKey(order_list[i]),
                             val |-> IF order_list[i].dir = "asc" THEN 1 ELSE -1]

\* get_sort_specification has returned a specification (and not raised).
SortReturned == called = "get_sort_specification" /\ "exc" \notin DOMAIN returned

C18_OnlyDescSortsDescending ==
    (/\ called = "get_sort_specification"
     /\ order_list # <<>>
     /\ Resolves(order_list[1]))
    => /\ "exc" \notin DOMAIN returned
       /\ returned.items[1].val =
              IF "dir" \in DOMAIN order_list[1] /\ order_list[1].dir = "desc"
              THEN -1 ELSE 1

\* The proper parent prefixes of a dotted path.
ParentPaths(path) ==
    {SubSeq(path, 1, i - 1) : i \in {j \in 1..Len(path) : path[j] = "."}}

\* C19: the projection includes _id, every requested column with a
\* non-empty data path, and every parent prefix of a nested path
\* (address.city brings address).
C19_ProjectionIncludesParents ==
    called = "projection" =>
        /\ DictHas(returned.items, s__id)
        /\ \A c \in 1..Len(columns) :
               columns[c].data # <<>> =>
                   /\ DictHas(returned.items, columns[c].data)
                   /\ \A parent \in ParentPaths(columns[c].data) :
                          DictHas(returned.items, parent)

\* datetime.fromisoformat of YYYY-MM-DDTHH:MM:SS
FromIsoFormat(s) ==
    Datetime(DigitsValue(SubSeq(s, 1, 4)), DigitsValue(SubSeq(s, 6, 7)),
             DigitsValue(SubSeq(s, 9, 10)), DigitsValue(SubSeq(s, 12, 13)),
             DigitsValue(SubSeq(s, 15, 16)), DigitsValue(SubSeq(s, 18, 19)))

\* The canonical form of a value: identifiers and dates as strings at every
\* depth of dicts and lists, every other scalar as it is.
RECURSIVE Canonical(_)
Canonical(val) ==
    IF val.type = "ObjectId" THEN PyStr(val.hex)
    ELSE IF val.type = "datetime" THEN PyStr(IsoFormat(val))
    ELSE IF val.type = "dict"
    THEN PyDict([i \in 1..Len(val.items) |->
                    [key |-> val.items[i].key, val |-> Canonical(val.items[i].val)]])
    ELSE IF val.type = "list"
    THEN PyList([i \in 1..Len(val.items) |-> Canonical(val.items[i])])
    ELSE val

\* The datetime values of a value, at every depth.
RECURSIVE Dates(_)
Dates(val) ==
    IF val.type = "datetime" THEN {val}
    ELSE IF val.type = "dict"
    THEN UNION {Dates(val.items[i].val) : i \in 1..Len(val.items)}
    ELSE IF val.type = "list"
    THEN UNION {Dates(val.items[i]) : i \in 1..Len(val.items)}
    ELSE {}

\* C20: in every row of results() the identifier appears only as the string
\* DT_RowId (no _id key), and every identifier and date of the document, at
\* any depth of dicts and lists, is replaced by its canonical string (the
\* ISO string of a date parsing back to the date), every other scalar
\* unchanged.
C20_RowsHoldOnlyCanonicalValues ==
    (called = "results" /\ results_cache # None) =>
        /\ Len(returned.items) = Len(collection.docs)
        /\ \A r \in 1..Len(returned.items) :
               LET row == returned.items[r]
                   document == collection.docs[r]
               IN  /\ ~DictHas(row, s__id)
                   /\ DictHas(document, s__id) =>
                          /\ DictHas(row, s_DT_RowId)
                          /\ DictGet(row, s_DT_RowId).type = "str"
                   /\ \A i \in 1..Len(row) :
                          row[i].key # s_DT_RowId =>
                              \E j \in 1..Len(document) :
                                  /\ document[j].key = row[i].key
                                  /\ row[i].val = Canonical(document[j].val)
                   /\ \A d \in Dates(PyDict(document)) :
                          FromIsoFormat(IsoFormat(d)) = d

\* The keys of the response of get_rows.
Envelope == {"draw", "recordsTotal", "recordsFiltered", "data"}

\* C21: a failure of the backend on the read path is absorbed.  When the
\* aggregate call raises, results() returns the empty list; when the count
\* raises, count_total() and count_filtered() return 0; none of the three
\* raises, and get_rows() of a request whose draw is a number still returns
\* a response with draw, recordsTotal, recordsFiltered and data.
C21_ReadFailuresAreAbsorbed ==
    /\ called \in {"results", "count_total", "count_filtered"} =>
           "exc" \notin DOMAIN returned
    /\ (called = "results" /\ collection.raises) => returned = PyList(<<>>)
    /\ (called \in {"count_total", "count_filtered"} /\ collection.count_raises) =>
           returned = PyInt(0)
    /\ (called = "get_rows" /\ draw.ok) =>
           /\ Envelope \subseteq DOMAIN returned
           /\ collection.raises => returned.data = PyList(<<>>)
           /\ collection.count_raises =>
                  /\ returned.recordsTotal = PyInt(0)
                  /\ returned.recordsFiltered = PyInt(0)

\* get_rows() has answered over a collection whose aggregate and count calls
\* both raise.
C21_Witness ==
    /\ called = "get_rows"
    /\ collection.raises
    /\ collection.count_raises
    /\ Envelope \subseteq DOMAIN returned
    /\ counted # <<>>
    /\ aggregated # <<>>

\* C22: get_rows() never raises for a malformed request (no order list, a
\* draw that is no number, a column index out of range or no number, a start
\* or length that is no number): it returns a response with draw,
\* recordsTotal, recordsFiltered and data, and a draw that is no number is
\* reported as draw = 1.
C22_GetRowsNeverRaises ==
    called = "get_rows" =>
        /\ "exc" \notin DOMAIN returned
        /\ Envelope \subseteq DOMAIN returned
        /\ ~draw.ok => returned.draw = PyInt(1)

\* The place of a stage in the order match, sort, skip, limit, project.
StageRank(name) ==
    CASE name = "$match" -> 1
      [] name = "$sort" -> 2
      [] name = "$skip" -> 3
      [] name = "$limit" -> 4
      [] name = "$project" -> 5
      [] OTHER -> 0

StageNames(pipeline) == [i \in 1..Len(pipeline) |-> pipeline[i].stage]

\* C27: results() sends its plan as one aggregate call whose stages come in
\* the order match, sort, skip, limit, project, each at most once: the match
\* stage is there exactly when the filter is not empty, then it is first and
\* holds the filter; sort precedes skip and limit, skip precedes limit, and
\* exactly one projection stage is there, the last one.
C27_StagesInFixedOrder ==
    /\ (called = "results" /\ results_cache # None) => Len(aggregated) = 1
    /\ \A k \in 1..Len(aggregated) :
           LET pipeline == aggregated[k]
               names == StageNames(pipeline)
           IN  /\ \A i \in 1..Len(names) : StageRank(names[i]) > 0
               /\ \A i, j \in 1..Len(names) :
                      i < j => StageRank(names[i]) < StageRank(names[j])
               /\ Len(names) > 0
               /\ names[Len(names)] = "$project"
               /\ Truthy(filter) <=> (\E i \in 1..Len(names) : names[i] = "$match")
               /\ Truthy(filter) => pipeline[1] = Stage("$match", filter)

\* results() has sent a pipeline with all five stages.
C27_Witness ==
    /\ called = "results"
    /\ Len(aggregated) = 1
    /\ StageNames(aggregated[1]) = <<"$match", "$sort", "$skip", "$limit", "$project">>

\* The number of count_documents calls made with the query given.
Counted(query) == Cardinality({i \in 1..Len(counted) : counted[i] = query})

\* C28: over any sequence of results(), count_total(), count_filtered() and
\* get_rows() calls on one instance, the aggregate, the total count and the
\* filtered count are each sent to the backend at most once, whether the
\* first attempt succeeded or failed, and a later call returns the value of
\* the first.
C28_EachBackendOperationOnce ==
    /\ Len(aggregated) <= 1
    /\ Counted(EmptyDoc) <= 1
    /\ Truthy(filter) => Counted(filter) <= 1
    /\ called = "count_total" => returned = records_total
    /\ called = "count_filtered" => returned = records_filtered
    /\ (called = "results" /\ results_cache # None) => returned = results_cache

(***************************************************************************)
(* Properties of the Editor.                                               *)
(***************************************************************************)

\* The step is a call of the handler named, directly or through process().
Handles(name) == called' = name \/ (called' = "process" /\ action = name)

\* The calls the collection receives in the step.
Issued == SubSeq(operations', Len(operations) + 1, Len(operations'))

\* The response is a dict with the key.
Responds(response, key) == "exc" \notin DOMAIN response /\ DictHas(response.items, key)

\* The ids of the list that have an entry in the data.
KnownIds == SelectSeq(list_of_ids, LAMBDA id : DictHas(data, id))

\* C23: edit() skips an id of the id list that has no entry in the data
\* map: the collection receives no update and no lookup for it and the
\* response holds no row for it; when no id of the list has an entry, the
\* response is {data: []}, no call is made and nothing is raised.
C23_UnknownIdsAreSkipped ==
    [][Handles("edit") =>
          /\ \A k \in 1..Len(list_of_ids) :
                 (~DictHas(data, list_of_ids[k]) /\ ValidObjectId(list_of_ids[k])) =>
                     \A i \in 1..Len(Issued) : Issued[i].id # ObjectIdOf(list_of_ids[k])
          /\ Responds(returned', "data") =>
                 LET rows == DictGet(returned'.items, "data").items
                 IN  /\ Len(rows) = Len(KnownIds)
                     /\ \A r \in 1..Len(rows) :
                            DictGet(rows[r].items, s_DT_RowId) = PyStr(Lower(KnownIds[r]))
          /\ (list_of_ids # <<>> /\ KnownIds = <<>>) =>
                 /\ returned' = DataResponse(<<>>)
                 /\ Issued = <<>>]_vars

\* edit() has answered a list of ids of which one has an entry in the data
\* and one has none.
C23_Witness ==
    /\ called = "edit"
    /\ KnownIds # <<>>
    /\ Len(KnownIds) < Len(list_of_ids)
    /\ Responds(returned, "data")
    /\ DictGet(returned.items, "data").items # <<>>

\* The call that raises is among those the collection receives in the step.
RaisesInStep ==
    /\ collection.fails_at > Len(operations)
    /\ collection.fails_at <= Len(operations')

\* C24: when a call of the collection raises during create, edit or remove,
\* the handler raises nothing and returns {error: <the message of the
\* exception>}; the call that raised is the last one the collection
\* receives.
C24_BackendFailureBecomesErrorResponse ==
    [][RaisesInStep =>
          /\ returned' = ErrorResponse(collection.message)
          /\ Len(operations') = collection.fails_at]_vars

\* create() has answered after the lookup of the inserted document raised.
C24_Witness ==
    /\ called = "create"
    /\ operations # <<>>
    /\ Len(operations) = collection.fails_at
    /\ operations[Len(operations)].op = "find_one"
    /\ returned = ErrorResponse(collection.message)

\* Every id of the list is an identifier, and no call of the collection
\* raises.
NothingFails ==
    /\ collection.fails_at = 0
    /\ \A k \in 1..Len(list_of_ids) : ValidObjectId(list_of_ids[k])

\* An id of the list has an entry in the data and no document.
EditsMissingDocument ==
    \E k \in 1..Len(list_of_ids) :
        /\ DictHas(data, list_of_ids[k])
        /\ FindOne(existing, ObjectIdOf(list_of_ids[k])) = <<>>

\* C25: edit and remove of an id that has no document complete as a
\* success without effect: remove returns {} and edit returns a response
\* with data and without error (no call of the collection raising).
C25_MissingDocumentIsNoOp ==
    [][(NothingFails /\ list_of_ids # <<>>) =>
          /\ Handles("remove") => returned' = PyDict(<<>>)
          /\ (Handles("edit") /\ EditsMissingDocument) =>
                 /\ Responds(returned', "data")
                 /\ ~Responds(returned', "error")]_vars

\* The operations a handler sends to the collection.
OperationsOf(name) ==
    CASE name = "create" -> {"insert_one", "find_one"}
      [] name = "edit" -> {"update_one", "find_one"}
      [] name = "remove" -> {"delete_one"}
      [] OTHER -> {}

\* C26: process() runs the handler named by the action, and only that one,
\* and returns its result; for any other action, a missing one included, it
\* raises the unsupported-action error before any call of the collection.
C26_ProcessDispatchesOnAction ==
    [][called' = "process" =>
          /\ \A i \in 1..Len(Issued) : Issued[i].op \in OperationsOf(action)
          /\ action = "create" => (returned' = create /\ Leaves(CreateOutcome))
          /\ action = "edit" => (returned' = edit /\ Leaves(EditOutcome))
          /\ action = "remove" => (returned' = remove /\ Leaves(RemoveOutcome))
          /\ action \notin {"create", "edit", "remove"} =>
                 /\ "exc" \in DOMAIN returned'
                 /\ returned'.exc = "ValueError"
                 /\ returned'.message = Message("Unsupported action: ", <<action>>)
                 /\ UNCHANGED <<operations, existing>>]_vars

\* process() has run remove, and process() has refused an action.
C26_Witness ==
    /\ called = "process"
    /\ \/ action = "remove" /\ returned = PyDict(<<>>) /\ operations # <<>>
       \/ action = "upload" /\ "exc" \in DOMAIN returned

\* The deletes of the step that completed: all those issued but the one
\* that raised.
Completed == IF RaisesInStep THEN Len(Issued) - 1 ELSE Len(Issued)

\* The documents that none of the first n ids of the list names.
StaysAfter(n) ==
    {i \in 1..Len(existing) :
        \A k \in 1..n : ~HasId(existing[i], ObjectIdOf(list_of_ids[k]))}

\* C30: remove() issues one delete per id, in the order of the list, and is
\* not atomic: when a delete raises, an id that is no identifier included,
\* the deletes before it stay applied, no later delete is attempted and the
\* response is {error: ...}; the response is {} only when every delete of
\* the list has completed.
C30_RemoveDeletesInOrderUntilFailure ==
    [][(Handles("remove") /\ list_of_ids # <<>>) =>
          /\ Len(Issued) <= Len(list_of_ids)
          /\ \A k \in 1..Len(Issued) :
                 Issued[k] = [op |-> "delete_one", id |-> ObjectIdOf(list_of_ids[k])]
          /\ {existing'[i] : i \in 1..Len(existing')} =
                 {existing[i] : i \in StaysAfter(Completed)}
          /\ Len(existing') = Cardinality(StaysAfter(Completed))
          /\ IF Completed = Len(list_of_ids)
             THEN returned' = PyDict(<<>>)
             ELSE /\ Responds(returned', "error")
                  /\ RaisesInStep => Len(operations') = collection.fails_at
                  /\ ~RaisesInStep =>
                         /\ ~ValidObjectId(list_of_ids[Len(Issued) + 1])
                         /\ returned' =
                                ErrorResponse(InvalidIdMessage(list_of_ids[Len(Issued) + 1]))]_vars

\* remove() has answered with an error after a delete that stays applied:
\* the second id of three is no identifier.
C30_Witness ==
    /\ called = "remove"
    /\ Len(list_of_ids) = 3
    /\ Responds(returned, "error")
    /\ Len(operations) = 1
    /\ existing # <<>>
    /\ \A i \in 1..Len(existing) : ~HasId(existing[i], ObjectIdOf(list_of_ids[1]))

\* The leaves of a row that are not None, each with its dot-joined path, in
\* the order of the row; a value that is no dict has none.
RECURSIVE LeavesOf(_, _)
LeavesOf(value, path) ==
    IF value.type = "NoneType" THEN <<>>
    ELSE IF value.type # "dict" THEN <<[path |-> path, val |-> value]>>
    ELSE LET Under(i) ==
                 LeavesOf(value.items[i].val,
                          IF path = <<>> THEN value.items[i].key
                          ELSE path \o <<".">> \o value.items[i].key)
             Upto[n \in 0..Len(value.items)] ==
                 IF n = 0 THEN <<>> ELSE Upto[n - 1] \o Under(n)
         IN  Upto[Len(value.items)]

\* The leaves of the row sent for an id.
RowLeaves(id) ==
    IF DictGet(data, id).type = "dict" THEN LeavesOf(DictGet(data, id), <<>>) ELSE <<>>

\* The value of the $set for a leaf of the declared type.
StoredFor(field_type, value, to_set) ==
    IF value.type # "str" \/ field_type \notin {"number", "boolean", "date", "array"}
    THEN to_set = value
    ELSE CASE field_type = "number" ->
                 IF (IF Contains(value.val, ".") THEN ParseFloat(value.val)
                     ELSE ParseNumber(value.val)).ok
                 THEN to_set.type \in {"int", "float"}
                 ELSE to_set = value
           [] field_type = "date" ->
                 IF DatetimeFromIsoformat(IF Contains(value.val, "T")
                                          THEN Replace(value.val, s_Z, s_utc)
                                          ELSE value.val \o s_midnight).ok
                 THEN to_set.type = "datetime"
                 ELSE to_set = value
           [] field_type = "boolean" ->
                 to_set = PyBool(Lower(value.val) \in TrueWords)
           [] field_type = "array" ->
                 IF JsonLoads(value.val).ok THEN to_set = JsonLoads(value.val).val
                 ELSE to_set = PyList(<<value>>)

\* The $set of an update holds the leaves of a row, one entry each.
SetsLeaves(to_set, leaves) ==
    /\ leaves # <<>>
    /\ Len(to_set) = Len(leaves)
    /\ \A j \in 1..Len(leaves) :
           /\ to_set[j].key = leaves[j].path
           /\ StoredFor(EditorFieldType(leaves[j].path), leaves[j].val, to_set[j].val)

\* C29: the $set of an edited row has exactly one entry per leaf of the row
\* that is not null, under its dot-joined path, and no update is sent for a
\* row without such a leaf. A string leaf is converted to its declared
\* type (number, boolean, date, array); a number or date string that does
\* not convert is kept as it is, and an array string that does not parse
\* becomes a list of that one string.
C29_SetHoldsTheLeavesOfTheRow ==
    [][Handles("edit") =>
          /\ \A i \in 1..Len(Issued) :
                 Issued[i].op = "update_one" =>
                    \E k \in 1..Len(list_of_ids) :
                        /\ DictHas(data, list_of_ids[k])
                        /\ Issued[i].id = ObjectIdOf(list_of_ids[k])
                        /\ SetsLeaves(Issued[i].set, RowLeaves(list_of_ids[k]))
          /\ \A i \in 1..Len(Issued) :
                 Issued[i].op = "find_one" =>
                    \E k \in 1..Len(list_of_ids) :
                        /\ DictHas(data, list_of_ids[k])
                        /\ Issued[i].id = ObjectIdOf(list_of_ids[k])
                        /\ \/ RowLeaves(list_of_ids[k]) = <<>>
                           \/ /\ i > 1
                              /\ Issued[i - 1].op = "update_one"
                              /\ Issued[i - 1].id = Issued[i].id]_vars

\* edit() has sent a $set that keeps a number string and a date string that
\* do not convert and wraps an array string that does not parse.
C29_Witness ==
    /\ called = "edit"
    /\ \E i \in 1..Len(operations) :
           /\ operations[i].op = "update_one"
           /\ DictHas(operations[i].set, s_age)
           /\ DictHas(operations[i].set, s_tags)
           /\ DictHas(operations[i].set, s_joined)
           /\ DictGet(operations[i].set, s_age) = PyStr(s_abc)
           /\ DictGet(operations[i].set, s_tags) = PyList(<<PyStr(<<"a", ",", "b">>)>>)
           /\ DictGet(operations[i].set, s_joined).type = "str"

=============================================================================
